---------------------------- MODULE Spec2Model ----------------------------
(***************************************************************************)
(* Zendesk -> MySQL incremental backup (src/backup.py).                    *)
(*                                                                         *)
(* The module models the fetcher (get_with_retry), the bootstrap time, the *)
(* store (typed tables, raw snapshots, checkpoints) and the coordinators   *)
(* driven by main().  Several specifications share the variables:          *)
(*   SpecBoot   initial_start_time_epoch over clocks and lookbacks         *)
(*   SpecRetry  one get_with_retry call over arbitrary server responses    *)
(***************************************************************************)
EXTENDS Integers, Sequences, FiniteSets, TLC

VARIABLES
    clock,      \* time.time() in milliseconds
    hours,      \* BOOTSTRAP_HOURS
    start,      \* <<the clock at the last call of initial_start_time_epoch, its result>>, or <<>>
    gw,         \* the frame of the get_with_retry call in progress
    db,         \* the MySQL database: one set of rows per table
    last,       \* the last store operation applied (SpecStore), or NoOp
    nops,       \* the number of store operations applied (SpecStore)
    cfg,        \* the toggles read from the environment
    srv,        \* the remote API: how it answers, and for which resource it varies
    pc,         \* where main() is
    runs,       \* the number of runs of main() started
    req,        \* the request being fetched: url and params
    page,       \* the page being processed, its records consumed one by one
    sub,        \* the ticket being processed: its comment page, attachment, local path
    files,      \* the attachments directory: the files and their sizes
    nfetch,     \* the pages fetched by the running coordinator
    seen,       \* the pages the running coordinator has processed, in order
    ckAtStart,  \* the sync_state table when the run started
    old,        \* the checkpoint tokens overwritten by a different token
    pruned,     \* the ticket ids this run has called delete_ticket for
    prev,       \* <<the store as the run before this one left it>> if that run completed, else <<>>
    peer        \* the frame of a second process running the coordinator (SpecRace), or NoPeer

runVars ==
    <<cfg, srv, pc, runs, req, page, sub, files, nfetch, seen, ckAtStart, old, pruned,
      prev, peer>>

vars == <<clock, hours, start, gw, db, last, nops, runVars>>

\* Python's None
None == "None"

Max(a, b) == IF a >= b THEN a ELSE b

Min(a, b) == IF a <= b THEN a ELSE b

(***************************************************************************)
(* Bootstrap start time                                                    *)
(***************************************************************************)

\* the largest |BOOTSTRAP_HOURS| tried
MaxHours == 2

\* the number of half-second clock ticks tried
MaxTicks == 12

\* the clock when the model starts, in milliseconds
ClockBase == 20000000

\* the floor of the lookback, in seconds
MinLookback == 120

\* int(time.time()): the float clock truncated to whole seconds
IntTime(ms) == ms \div 1000

initial_start_time_epoch_NoFloor(ms, h) == IntTime(ms) - h * 3600

initial_start_time_epoch(ms, h) == IntTime(ms) - Max(h * 3600, MinLookback)

(***************************************************************************)
(* get_with_retry                                                          *)
(***************************************************************************)

RETRY_STATUS == {429, 500, 502, 503, 504}

\* range(8)
MaxAttempts == 8

\* min(backoff * 2, 30.0)
BackoffCeiling == 30

\* the statuses the server answers with
Statuses == {200, 201, 204, 302, 400, 404, 501} \cup RETRY_STATUS

\* the values of the Retry-After header: absent, empty, seconds, an HTTP date
RetryAfterHeaders == {None, "", "0", "5", "Wed, 21 Oct 2015 07:28:00 GMT"}

\* whether the body of the response parses as JSON
Bodies == {"json", "malformed"}

Responses ==
    [status : {200}, retry_after : {None}, body : Bodies]
        \cup [status : RETRY_STATUS, retry_after : RetryAfterHeaders, body : {"json"}]
        \cup [status : Statuses \ ({200} \cup RETRY_STATUS), retry_after : {None}, body : {"json"}]

\* Python truthiness of an Optional[str]
Truthy(s) == s # None /\ s # ""

\* float(s): <<the number>>, or <<>> where float() raises ValueError
Float(s) ==
    CASE s = "0" -> <<0>>
      [] s = "5" -> <<5>>
      [] OTHER -> <<>>

GwIdle ==
    [st |-> "idle", exc |-> None, status |-> 0, attempt |-> 0, backoff |-> 1,
     sleeps |-> <<>>, stream |-> FALSE]

\* the frame on entry: backoff = 1.0, no request issued yet
GwEnter(stream) == [GwIdle EXCEPT !.st = "running", !.stream = stream]

GwRaise(g, exc) == [g EXCEPT !.st = "raised", !.exc = exc]

\* backoff = min(backoff * 2, 30.0)
NextBackoff_NoCeiling(b) == b * 2

NextBackoff(b) == Min(b * 2, BackoffCeiling)

\* sleep_for = float(retry_after) if retry_after else backoff
SleepFor_IgnoreHeader(ra, backoff) == <<backoff>>

SleepFor(ra, backoff) == IF Truthy(ra) THEN Float(ra) ELSE <<backoff>>

\* the branch for a status in RETRY_STATUS, up to the continue; g has counted
\* the request already
GwRetryable(g, r) ==
    LET sleep_for == SleepFor(r.retry_after, g.backoff) IN
    IF sleep_for = <<>> THEN GwRaise(g, "ValueError")
    ELSE LET slept == [g EXCEPT !.sleeps = Append(@, [hdr |-> r.retry_after, secs |-> sleep_for[1]]),
                                !.backoff = NextBackoff(@)] IN
         IF slept.attempt >= MaxAttempts
         THEN GwRaise(slept, "exhausted")
         ELSE slept

GwClassify_RetryAll5xx(status) ==
    IF status = 200 THEN "success"
    ELSE IF status = 429 \/ status >= 500 THEN "retryable"
    ELSE "fatal"

\* the two tests on resp.status_code
GwClassify(status) ==
    IF status = 200 THEN "success"
    ELSE IF status \in RETRY_STATUS THEN "retryable"
    ELSE "fatal"

\* one iteration of the loop of get_with_retry: the request, and what the code
\* does with the response r
get_with_retry_step(g, r) ==
    LET g1 == [g EXCEPT !.attempt = @ + 1, !.status = r.status] IN
    CASE GwClassify(r.status) = "success" ->
            IF g.stream \/ r.body = "json"
            THEN [g1 EXCEPT !.st = "returned"]
            ELSE GwRaise(g1, "JSONDecodeError")
      [] GwClassify(r.status) = "retryable" -> GwRetryable(g1, r)
      [] OTHER -> GwRaise(g1, "status")


(***************************************************************************)
(* The store: SCHEMA_SQL and the upsert helpers                            *)
(***************************************************************************)

\* the largest remote id
MaxId == 2

Ids == 1..MaxId

\* created_at / updated_at as the API sends them
T1 == "2024-01-01T00:00:00Z"

T2 == "2024-06-01T12:30:00Z"

BadTime == "not a date"

\* parse_dt: None for a falsy or unparsable string, else the time formatted
\* "%Y-%m-%d %H:%M:%S"
parse_dt_Verbatim(s) == s

parse_dt(s) ==
    CASE s = T1 -> "2024-01-01 00:00:00"
      [] s = T2 -> "2024-06-01 12:30:00"
      [] OTHER -> None

\* 1 if v else 0, v a JSON value
Bool01(v) == IF v = "true" THEN 1 ELSE 0

\* a or b
OrElse(a, b) == IF a # None /\ a # "" THEN a ELSE b

\* str(n): the decimal string of a number
Str(n) == ToString(n)

\* a text is a sequence of characters; None and "" are both the empty sequence,
\* which is all `name or ""` and `file_name or ...` tell apart
Illegal == {"\\", "/", ":", "*", "?", "\"", "<", ">", "|"}

NameCap == 180

RECURSIVE Digits(_)
\* str(n), n a natural number
Digits(n) ==
    IF n < 10
    THEN <<CASE n = 0 -> "0" [] n = 1 -> "1" [] n = 2 -> "2" [] n = 3 -> "3" [] n = 4 -> "4"
             [] n = 5 -> "5" [] n = 6 -> "6" [] n = 7 -> "7" [] n = 8 -> "8" [] OTHER -> "9">>
    ELSE Digits(n \div 10) \o Digits(n % 10)

\* re.sub(r"[\\/:*?\"<>|]+", "_", name): each run of illegal characters becomes
\* one underscore, written at the first character of the run
Sanitize(s) ==
    LET marked == [i \in 1..Len(s) |->
                        IF s[i] \notin Illegal THEN s[i]
                        ELSE IF i > 1 /\ s[i - 1] \in Illegal THEN "" ELSE "_"]
    IN  SelectSeq(marked, LAMBDA c : c # "")

safe_filename_NoCap(name) == Sanitize(name)

safe_filename(name) ==
    LET s == Sanitize(name) IN IF Len(s) > NameCap THEN SubSeq(s, 1, NameCap) ELSE s

\* f"{rid}__{fname}", fname the safe name of file_name or of attachment_<rid>
target_name(id, file_name) ==
    LET rid == Digits(id)
        fname == safe_filename(IF file_name # <<>> THEN file_name
                               ELSE <<"a", "t", "t", "a", "c", "h", "m", "e", "n", "t", "_">> \o rid)
    IN  rid \o <<"_", "_">> \o fname

\* the target below ATTACHMENTS_DIR: <ticket_id>/<attachment id>__<safe file name>
target_path(ticket_id, id, file_name) ==
    Digits(ticket_id) \o <<"/">> \o target_name(id, file_name)

\* the characters of the file names the payloads of the model carry
Chars(name) ==
    CASE name = "a" -> <<"a">>
      [] name = "b" -> <<"b">>
      [] name = "a:b" -> <<"a", ":", "b">>
      [] OTHER -> <<>>

RECURSIVE Text(_)
Text(s) == IF s = <<>> THEN "" ELSE Head(s) \o Text(Tail(s))

\* no store operation applied yet
NoOp == [op |-> "none"]

EmptyDb ==
    [sync_state |-> {}, raw_snapshots |-> {}, users |-> {}, organizations |-> {},
     tickets |-> {}, ticket_comments |-> {}, attachments |-> {}, views |-> {},
     triggers |-> {}, trigger_categories |-> {}, macros |-> {}]

\* INSERT ... ON DUPLICATE KEY UPDATE <every other column>, the primary key id
InsertOrUpdate_NoKeyCheck(table, row) == table \cup {row}

InsertOrUpdate(table, row) == {r \in table : r.id # row.id} \cup {row}

\* get_cursor_val: the token stored for the resource, or None
get_cursor_val(d, resource) ==
    IF \E r \in d.sync_state : r.resource = resource
    THEN (CHOOSE r \in d.sync_state : r.resource = resource).cursor_token
    ELSE None

set_cursor_val_InsertOnly(d, resource, token) ==
    IF \E r \in d.sync_state : r.resource = resource THEN d
    ELSE [d EXCEPT !.sync_state = @ \cup {[resource |-> resource, cursor_token |-> token]}]

\* the token of position k of a cursor feed
Token(k) == "C" \o ToString(k)

\* a store that kept the later of two tokens of the feed
set_cursor_val_KeepLater(d, resource, token) ==
    LET cur == get_cursor_val(d, resource) IN
    IF \E j \in 1..8 : Token(j) = token /\ cur \in {Token(k) : k \in (j + 1)..9}
    THEN d
    ELSE [d EXCEPT !.sync_state =
            {r \in @ : r.resource # resource}
                \cup {[resource |-> resource, cursor_token |-> token]}]

set_cursor_val(d, resource, token) ==
    [d EXCEPT !.sync_state =
        {r \in @ : r.resource # resource}
            \cup {[resource |-> resource, cursor_token |-> token]}]

upsert_raw_InsertIgnore(d, resource, entity_id, updated_at, payload) ==
    IF \E r \in d.raw_snapshots : r.resource = resource /\ r.entity_id = entity_id
    THEN d
    ELSE [d EXCEPT !.raw_snapshots =
            @ \cup {[resource |-> resource, entity_id |-> entity_id,
                     updated_at |-> parse_dt(updated_at), payload_json |-> payload]}]

upsert_raw(d, resource, entity_id, updated_at, payload) ==
    [d EXCEPT !.raw_snapshots =
        {r \in @ : ~(r.resource = resource /\ r.entity_id = entity_id)}
            \cup {[resource |-> resource, entity_id |-> entity_id,
                   updated_at |-> parse_dt(updated_at), payload_json |-> payload]}]

\* the typed INSERT of each upsert helper: the columns from the payload
user_row(u) ==
    [id |-> u.id, name |-> u.name, active |-> Bool01(u.active),
     updated_at |-> parse_dt(u.updated_at)]

org_row(o) ==
    [id |-> o.id, name |-> o.name, shared_tickets |-> Bool01(o.shared_tickets),
     updated_at |-> parse_dt(o.updated_at)]

ticket_row(t) ==
    [id |-> t.id, subject |-> t.subject, status |-> t.status,
     updated_at |-> parse_dt(t.updated_at)]

comment_row(ticket_id, c) ==
    [id |-> c.id, ticket_id |-> ticket_id, public |-> Bool01(c.public), body |-> c.body,
     created_at |-> parse_dt(c.created_at),
     updated_at |-> parse_dt(OrElse(c.updated_at, c.created_at))]

attachment_row(ticket_id, comment_id, a, local_path) ==
    [id |-> a.id, ticket_id |-> ticket_id, comment_id |-> comment_id,
     file_name |-> a.file_name, content_url |-> a.content_url,
     local_path |-> local_path, created_at |-> parse_dt(a.created_at)]

view_row(v) ==
    [id |-> v.id, title |-> v.title, active |-> Bool01(v.active),
     default_view |-> Bool01(v.default), updated_at |-> parse_dt(v.updated_at)]

trigger_row(t) ==
    [id |-> t.id, title |-> t.title, active |-> Bool01(t.active),
     category_id |-> t.category_id, updated_at |-> parse_dt(t.updated_at)]

trigger_category_row(c) ==
    [id |-> Str(c.id), name |-> c.name, updated_at |-> parse_dt(c.updated_at)]

macro_row(m) ==
    [id |-> m.id, title |-> m.title, active |-> Bool01(m.active),
     updated_at |-> parse_dt(m.updated_at)]

\* each helper: the typed row committed, then upsert_raw of the same payload
upsert_user_typed(d, u) == [d EXCEPT !.users = InsertOrUpdate(@, user_row(u))]

upsert_user_raw(d, u) == upsert_raw(d, "users", u.id, u.updated_at, u)

upsert_user(d, u) == upsert_user_raw(upsert_user_typed(d, u), u)

upsert_org_typed(d, o) == [d EXCEPT !.organizations = InsertOrUpdate(@, org_row(o))]

upsert_org_raw(d, o) == upsert_raw(d, "organizations", o.id, o.updated_at, o)

upsert_org(d, o) == upsert_org_raw(upsert_org_typed(d, o), o)

upsert_ticket_typed_KeepNewer(d, t) ==
    IF \E r \in d.tickets : r.id = t.id /\ r.updated_at = parse_dt(T2) /\ t.updated_at # T2
    THEN d
    ELSE [d EXCEPT !.tickets = InsertOrUpdate(@, ticket_row(t))]

upsert_ticket_typed(d, t) == [d EXCEPT !.tickets = InsertOrUpdate(@, ticket_row(t))]

upsert_ticket_raw(d, t) == upsert_raw(d, "tickets", t.id, t.updated_at, t)

upsert_ticket(d, t) == upsert_ticket_raw(upsert_ticket_typed(d, t), t)

upsert_comment_typed(d, ticket_id, c) ==
    [d EXCEPT !.ticket_comments = InsertOrUpdate(@, comment_row(ticket_id, c))]

upsert_comment_raw_Skip(d, c) == d

upsert_comment_raw(d, c) ==
    upsert_raw(d, "comments", c.id, OrElse(c.updated_at, c.created_at), c)

upsert_comment(d, ticket_id, c) == upsert_comment_raw(upsert_comment_typed(d, ticket_id, c), c)

upsert_attachment_typed(d, ticket_id, comment_id, a, local_path) ==
    [d EXCEPT !.attachments =
        InsertOrUpdate(@, attachment_row(ticket_id, comment_id, a, local_path))]

upsert_attachment_raw(d, a) == upsert_raw(d, "attachments", a.id, a.created_at, a)

upsert_attachment(d, ticket_id, comment_id, a, local_path) ==
    upsert_attachment_raw(upsert_attachment_typed(d, ticket_id, comment_id, a, local_path), a)

\* the metadata helpers, by family f: the typed INSERT, then upsert_raw
upsert_meta_typed(f, d, r) ==
    CASE f = "views" -> [d EXCEPT !.views = InsertOrUpdate(@, view_row(r))]
      [] f = "triggers" -> [d EXCEPT !.triggers = InsertOrUpdate(@, trigger_row(r))]
      [] f = "trigger_categories" ->
            [d EXCEPT !.trigger_categories = InsertOrUpdate(@, trigger_category_row(r))]
      [] OTHER -> [d EXCEPT !.macros = InsertOrUpdate(@, macro_row(r))]

upsert_meta_raw(f, d, r) == upsert_raw(d, f, r.id, r.updated_at, r)

upsert_view(d, v) == upsert_meta_raw("views", upsert_meta_typed("views", d, v), v)

upsert_trigger(d, t) == upsert_meta_raw("triggers", upsert_meta_typed("triggers", d, t), t)

upsert_trigger_category(d, c) ==
    upsert_meta_raw("trigger_categories", upsert_meta_typed("trigger_categories", d, c), c)

upsert_macro(d, m) == upsert_meta_raw("macros", upsert_meta_typed("macros", d, m), m)

\* the payloads the API sends: what differs between two observations of an entity
Variants ==
    {[text |-> "a", flag |-> "true", ts |-> T2],
     [text |-> "b", flag |-> None, ts |-> T1],
     [text |-> "a", flag |-> "false", ts |-> BadTime]}

UserPayloads ==
    {[id |-> i, name |-> v.text, active |-> v.flag, updated_at |-> v.ts] :
        i \in Ids, v \in Variants}

OrgPayloads ==
    {[id |-> i, name |-> v.text, shared_tickets |-> v.flag, updated_at |-> v.ts] :
        i \in Ids, v \in Variants}

TicketPayloads ==
    {[id |-> i, subject |-> v.text, status |-> IF v.flag = "true" THEN "closed" ELSE "open",
      updated_at |-> v.ts] : i \in Ids, v \in Variants}

CommentPayloads ==
    {[id |-> i, body |-> v.text, public |-> v.flag, created_at |-> T1,
      updated_at |-> IF v.ts = BadTime THEN None ELSE v.ts, attachments |-> <<>>] :
        i \in Ids, v \in Variants}

AttachmentPayloads ==
    {[id |-> i, file_name |-> v.text, content_url |-> IF v.flag = None THEN None ELSE "url",
      created_at |-> v.ts] : i \in Ids, v \in Variants}

ViewPayloads ==
    {[id |-> i, title |-> v.text, active |-> v.flag, default |-> v.flag,
      updated_at |-> v.ts] : i \in Ids, v \in Variants}

TriggerPayloads ==
    {[id |-> i, title |-> v.text, active |-> v.flag, category_id |-> Str(i),
      updated_at |-> v.ts] : i \in Ids, v \in Variants}

TriggerCategoryPayloads ==
    {[id |-> i, name |-> v.text, updated_at |-> v.ts] : i \in Ids, v \in Variants}

MacroPayloads ==
    {[id |-> i, title |-> v.text, active |-> v.flag, updated_at |-> v.ts] :
        i \in Ids, v \in Variants}

\* the local path download_attachment hands to upsert_attachment, or None
LocalPaths == {None, "/attachments/file"}


(***************************************************************************)
(* The run: configuration, remote API, files                               *)
(***************************************************************************)

DefaultCfg ==
    [CLOSED_TICKETS_ONLY |-> FALSE, PRUNE_REOPENED_FROM_DB |-> FALSE,
     USE_TICKET_EVENTS_FOR_COMMENTS |-> FALSE, SKIP_ORGANIZATIONS |-> FALSE,
     DOWNLOAD_ATTACHMENTS |-> TRUE]

NoReq == [url |-> None, cursor |-> None, start_time |-> <<>>]

NoPage == [kind |-> "none"]

NoSub == [kind |-> "none"]

NoPeer == [pc |-> "none"]

\* main() not started: the state of the other specifications
RunIdle ==
    /\ cfg = DefaultCfg
    /\ srv = [mode |-> "any", focus |-> "none", tokenless |-> {}]
    /\ pc = "idle"
    /\ runs = 0
    /\ req = NoReq
    /\ page = NoPage
    /\ sub = NoSub
    /\ files = {}
    /\ nfetch = 0
    /\ seen = <<>>
    /\ ckAtStart = {}
    /\ old = {}
    /\ pruned = {}
    /\ prev = <<>>
    /\ peer = NoPeer

-----------------------------------------------------------------------------
(***************************************************************************)
(* SpecBoot: the bootstrap start time at every clock and lookback          *)
(***************************************************************************)

InitBoot ==
    /\ clock = ClockBase
    /\ hours \in (0 - MaxHours)..MaxHours
    /\ start = <<>>
    /\ gw = GwIdle
    /\ db = EmptyDb
    /\ last = NoOp
    /\ nops = 0
    /\ RunIdle

Tick ==
    /\ clock < ClockBase + MaxTicks * 500
    /\ clock' = clock + 500
    /\ UNCHANGED <<hours, start, gw, db, last, nops, runVars>>

ComputeStart ==
    /\ start' = <<clock, initial_start_time_epoch(clock, hours)>>
    /\ UNCHANGED <<clock, hours, gw, db, last, nops, runVars>>

NextBoot == Tick \/ ComputeStart

SpecBoot == InitBoot /\ [][NextBoot]_vars

(***************************************************************************)
(* SpecRetry: one call of get_with_retry, the server free to answer        *)
(***************************************************************************)

InitRetry ==
    /\ clock = ClockBase
    /\ hours = 24
    /\ start = <<>>
    /\ gw = GwIdle
    /\ db = EmptyDb
    /\ last = NoOp
    /\ nops = 0
    /\ RunIdle

RetryCall ==
    /\ gw.st = "idle"
    /\ \E stream \in BOOLEAN : gw' = GwEnter(stream)
    /\ UNCHANGED <<clock, hours, start, db, last, nops, runVars>>

RetryRequest ==
    /\ gw.st = "running"
    /\ \E r \in Responses : gw' = get_with_retry_step(gw, r)
    /\ UNCHANGED <<clock, hours, start, db, last, nops, runVars>>

NextRetry == RetryCall \/ RetryRequest

SpecRetry == InitRetry /\ [][NextRetry]_vars

(***************************************************************************)
(* SpecStore: the upsert helpers applied in any order to any payloads      *)
(***************************************************************************)

\* the number of store operations in a run of SpecStore
MaxOps == 2

\* the store after the operation o
Apply(d, o) ==
    CASE o.op = "upsert_user" -> upsert_user(d, o.payload)
      [] o.op = "upsert_org" -> upsert_org(d, o.payload)
      [] o.op = "upsert_ticket" -> upsert_ticket(d, o.payload)
      [] o.op = "upsert_comment" -> upsert_comment(d, o.ticket_id, o.payload)
      [] o.op = "upsert_attachment" ->
            upsert_attachment(d, o.ticket_id, o.comment_id, o.payload, o.local_path)
      [] o.op = "upsert_view" -> upsert_view(d, o.payload)
      [] o.op = "upsert_trigger" -> upsert_trigger(d, o.payload)
      [] o.op = "upsert_trigger_category" -> upsert_trigger_category(d, o.payload)
      [] o.op = "upsert_macro" -> upsert_macro(d, o.payload)
      [] OTHER -> d

InitStore ==
    /\ clock = ClockBase
    /\ hours = 24
    /\ start = <<>>
    /\ gw = GwIdle
    /\ db = EmptyDb
    /\ last = NoOp
    /\ nops = 0
    /\ RunIdle

StoreOp(o) ==
    /\ nops < MaxOps
    /\ db' = Apply(db, o)
    /\ last' = o
    /\ nops' = nops + 1
    /\ UNCHANGED <<clock, hours, start, gw, runVars>>

UpsertUser == \E u \in UserPayloads : StoreOp([op |-> "upsert_user", payload |-> u])

UpsertOrg == \E o \in OrgPayloads : StoreOp([op |-> "upsert_org", payload |-> o])

UpsertTicket == \E t \in TicketPayloads : StoreOp([op |-> "upsert_ticket", payload |-> t])

UpsertComment ==
    \E c \in CommentPayloads, tid \in {1, MaxId} :
        StoreOp([op |-> "upsert_comment", ticket_id |-> tid, payload |-> c])

UpsertAttachment ==
    \E a \in AttachmentPayloads, tid \in {1, MaxId}, cid \in {1, MaxId}, lp \in LocalPaths :
        StoreOp([op |-> "upsert_attachment", ticket_id |-> tid, comment_id |-> cid,
                 payload |-> a, local_path |-> lp])

UpsertView == \E v \in ViewPayloads : StoreOp([op |-> "upsert_view", payload |-> v])

UpsertTrigger == \E t \in TriggerPayloads : StoreOp([op |-> "upsert_trigger", payload |-> t])

UpsertTriggerCategory ==
    \E c \in TriggerCategoryPayloads :
        StoreOp([op |-> "upsert_trigger_category", payload |-> c])

UpsertMacro == \E m \in MacroPayloads : StoreOp([op |-> "upsert_macro", payload |-> m])

NextStore ==
    \/ UpsertUser
    \/ UpsertOrg
    \/ UpsertTicket
    \/ UpsertComment
    \/ UpsertAttachment
    \/ UpsertView
    \/ UpsertTrigger
    \/ UpsertTriggerCategory
    \/ UpsertMacro

SpecStore == InitStore /\ [][NextStore]_vars

-----------------------------------------------------------------------------
(***************************************************************************)
(* SpecPath: the target path of an attachment, for every id and file name  *)
(***************************************************************************)

MaxName == 3

RECURSIVE TextsUpTo(_, _)
\* the texts of at most n characters of the alphabet
TextsUpTo(alphabet, n) ==
    IF n = 0 THEN {<<>>}
    ELSE LET shorter == TextsUpTo(alphabet, n - 1)
         IN  shorter \cup {<<c>> \o t : c \in alphabet, t \in {u \in shorter : Len(u) = n - 1}}

Rep(c, n) == [i \in 1..n |-> c]

\* file names around the cap, with and without illegal characters
LongNames ==
    {Rep("a", NameCap - 1), Rep("a", NameCap), Rep("a", NameCap + 1),
     <<"/">> \o Rep("a", NameCap),
     Rep("a", NameCap - 1) \o <<":", "*", "b">>,
     Rep("?", NameCap + 1),
     Rep("/", NameCap) \o Rep("a", NameCap - 1),
     [i \in 1..(NameCap + 2) |-> IF i % 2 = 0 THEN "|" ELSE "a"]}

\* the file names an attachment may carry; <<>> for a missing or empty one
FileNames ==
    TextsUpTo({"a", "/", "_", "1"}, MaxName)
        \cup {<<c>> : c \in Illegal}
        \cup {<<"a", c, c, ".", c>> : c \in Illegal}
        \cup LongNames

\* attachment ids of one and two digits
PathIds == Ids \cup {10 + i : i \in Ids}

InitPath == InitStore

\* the path computation of download_attachment for one attachment of one ticket
ComputeTarget ==
    \E ticket_id \in Ids, id \in PathIds, name \in FileNames :
        /\ nops = 0
        /\ nops' = 1
        /\ last' = [op |-> "download_attachment", ticket_id |-> ticket_id, id |-> id,
                    file_name |-> name, target |-> target_path(ticket_id, id, name)]
        /\ UNCHANGED <<clock, hours, start, gw, db, runVars>>

NextPath == ComputeTarget

SpecPath == InitPath /\ [][NextPath]_vars

-----------------------------------------------------------------------------
(***************************************************************************)
(* The remote API as main() sees it                                        *)
(***************************************************************************)

\* invocations of main() against one store
MaxRuns == 2

\* pages the API serves to one paging loop when it answers at will
MaxPages == 2

\* pages of the ordered incremental feed
FeedLen == 3

\* the largest end_time the API reports
MaxEnd == 2

Url(k) == "after" \o ToString(k)

\* int(s) of a stored epoch string
IntOf(s) == CHOOSE n \in 0..(MaxEnd + 1) : Str(n) = s

SyncUser(i) == [id |-> i, name |-> "a", active |-> "true", updated_at |-> T2]

SyncOrg(i) == [id |-> i, name |-> "a", shared_tickets |-> "true", updated_at |-> T2]

SyncTicket(i, status) == [id |-> i, subject |-> "a", status |-> status, updated_at |-> T2]

SyncAttachment(i, url) ==
    [id |-> i, file_name |-> "a:b", content_url |-> url, created_at |-> T2]

SyncComment(i, atts) ==
    [id |-> i, body |-> "a", public |-> "true", created_at |-> T1, updated_at |-> T2,
     attachments |-> atts]

ChildEvent(i, type, atts) ==
    [id |-> i, event_type |-> type, type |-> "Comment", public |-> "true", body |-> "a", created_at |-> T1,
     attachments |-> atts]

SyncEvent(tid, ces) == [ticket_id |-> tid, child_events |-> ces]

\* a page of a cursor export: page.get(<family>, []), after_cursor, after_url,
\* links.next, end_of_stream; pos is its place in the feed (0: none)
CursorPage(kind, recs, ac, au, ln, eos, pos) ==
    [kind |-> kind, recs |-> recs, after_cursor |-> ac, after_url |-> au,
     links_next |-> ln, end_of_stream |-> eos, pos |-> pos]

\* a page of a time export: end_time 0 stands for an absent (falsy) end_time
TimePage(kind, recs, end_time, next_page) ==
    [kind |-> kind, recs |-> recs, end_time |-> end_time, next_page |-> next_page]

\* a page of an offset listing
ListPage(kind, recs, next_page, links_next) ==
    [kind |-> kind, recs |-> recs, next_page |-> next_page, links_next |-> links_next]

\* page.get("after_url") or page.get("links", {}).get("next")
AfterUrl_NoLinks(pg) == pg.after_url

AfterUrl(pg) == OrElse(pg.after_url, pg.links_next)

\* page.get("next_page") or page.get("links", {}).get("next")
NextUrl(pg) == OrElse(pg.next_page, pg.links_next)

\* the page ends its paging loop
FinalPage(pg) ==
    CASE pg.kind \in {"users", "tickets"} -> pg.end_of_stream \/ ~Truthy(AfterUrl(pg))
      [] pg.kind \in {"organizations", "ticket_events"} -> ~Truthy(pg.next_page)
      [] OTHER -> ~Truthy(NextUrl(pg))

Links == {<<None, None>>, <<"next", None>>, <<None, "next">>}

\* what an API that answers at will may send
AnyPages(resource) ==
    CASE resource = "users" ->
            {CursorPage("users", r, ac, l[1], l[2], e, 0) :
                r \in {<<>>, <<SyncUser(1), SyncUser(2)>>},
                ac \in {None, "", "C1", "C2"}, l \in Links, e \in BOOLEAN}
      [] resource = "organizations" ->
            {TimePage("organizations", r, t, n) :
                r \in {<<>>, <<SyncOrg(1)>>}, t \in 0..MaxEnd, n \in {None, "next"}}
      [] resource = "tickets" ->
            {CursorPage("tickets", r, ac, au, None, e, 0) :
                r \in {<<>>, <<SyncTicket(2, "Closed"), SyncTicket(1, "open")>>,
                       <<SyncTicket(1, "closed")>>},
                ac \in {None, "C1", "C2"}, au \in {None, "next"}, e \in BOOLEAN}
      [] resource = "ticket_events" ->
            {TimePage("ticket_events", r, t, n) :
                r \in {<<>>,
                       <<SyncEvent(1, <<ChildEvent(1, "Comment", <<SyncAttachment(1, "url")>>)>>),
                         SyncEvent(2, <<ChildEvent(2, "Change", <<>>),
                                        ChildEvent(1, None, <<>>)>>)>>},
                t \in 0..MaxEnd, n \in {None, "next"}}
      [] OTHER ->
            {ListPage("comments", r, l[1], l[2]) :
                r \in {<<>>, <<SyncComment(2, <<SyncAttachment(1, "url"),
                                                SyncAttachment(2, None)>>)>>},
                l \in {<<None, None>>, <<None, "next">>}}

\* the one page a family outside the focus of the run is served (a ticket's
\* comments: one comment with one attachment, numbered as the ticket)
QuietPage(resource) ==
    CASE resource = "users" -> CursorPage("users", <<SyncUser(1)>>, "C1", None, None, TRUE, 0)
      [] resource = "organizations" -> TimePage("organizations", <<SyncOrg(1)>>, 1, None)
      [] resource = "tickets" ->
            CursorPage("tickets", <<SyncTicket(1, "closed")>>, "C1", None, None, TRUE, 0)
      [] resource = "ticket_events" ->
            TimePage("ticket_events",
                     <<SyncEvent(1, <<ChildEvent(1, "Comment", <<>>)>>)>>, 1, None)
      [] resource = "comments" ->
            ListPage("comments",
                     <<SyncComment(sub.tid, <<SyncAttachment(sub.tid, "url")>>)>>, None, None)
      [] resource = "views" ->
            ListPage("views", <<[id |-> 1, title |-> "a", active |-> "true",
                                 default |-> None, updated_at |-> T2]>>, None, None)
      [] resource = "triggers" ->
            ListPage("triggers", <<[id |-> 1, title |-> "a", active |-> "true",
                                    category_id |-> "1", updated_at |-> T2]>>, None, None)
      [] resource = "trigger_categories" ->
            ListPage("trigger_categories",
                     <<[id |-> 1, name |-> "a", updated_at |-> T2]>>, None, None)
      [] OTHER ->
            ListPage("macros", <<[id |-> 1, title |-> "a", active |-> "true",
                                  updated_at |-> T2]>>, None, None)

\* the record at position k of the ordered feed
FeedRec(resource, k) ==
    IF resource = "users" THEN SyncUser(k)
    ELSE SyncTicket(k, IF k = 2 THEN "open" ELSE "closed")

\* the position the request asks for: after the token, after the page link,
\* or the start of the window
PosOfReq(r) ==
    IF r.cursor # None THEN (CHOOSE k \in 1..FeedLen : Token(k) = r.cursor) + 1
    ELSE IF r.url = "first" THEN 1
    ELSE (CHOOSE k \in 1..FeedLen : Url(k) = r.url) + 1

\* the ordered feed: page k carries record k, the token of position k (unless
\* the API withholds it), the link to page k+1, end_of_stream on the last page;
\* past the end an empty page that repeats the token asked with
FeedPage(resource, r) ==
    LET k == PosOfReq(r) IN
    IF k <= FeedLen
    THEN CursorPage(resource, <<FeedRec(resource, k)>>,
                    IF k \in srv.tokenless THEN None ELSE Token(k),
                    IF k < FeedLen THEN Url(k) ELSE None, None, k = FeedLen, k)
    ELSE CursorPage(resource, <<>>, r.cursor, None, None, TRUE, k)

\* the pages the API may answer the request in flight with
\* (n pages already served to the paging loop)
ServerPages(resource, n) ==
    IF srv.focus # resource THEN {QuietPage(resource)}
    ELSE IF srv.mode = "feed"
         THEN IF resource = "comments" THEN {QuietPage(resource)}
              ELSE {FeedPage(resource, req)}
    ELSE {pg \in AnyPages(resource) : n + 1 < MaxPages \/ FinalPage(pg)}

-----------------------------------------------------------------------------
(***************************************************************************)
(* main(): the coordinators in order, one statement or request per step    *)
(***************************************************************************)

MetaFamilies == <<"views", "triggers", "trigger_categories", "macros">>

static == <<clock, hours, last, nops, cfg, srv, prev, peer>>

\* the attachments directory, and Path(ATTACHMENTS_DIR) / str(ticket_id) below it
ATTACHMENTS_DIR == "."

base_dir(ticket_id) == Text(Digits(ticket_id))

\* Path(p).mkdir(parents=True, exist_ok=True)
ensure_dir(fs, p) == fs \cup {[path |-> p, kind |-> "dir"]}

Running == pc \notin {"idle", "done", "failed", "crashed"}

\* the family whose request is in flight at pc
FamilyOfPc(p) ==
    CASE p = "users_fetch" -> "users"
      [] p = "orgs_fetch" -> "organizations"
      [] p = "tickets_fetch" -> "tickets"
      [] p \in {"events_fetch", "event_ticket_fetch"} -> "ticket_events"
      [] p \in {"comments_fetch", "download_fetch"} ->
            IF sub.kind = "event" THEN "ticket_events" ELSE "comments"
      [] OTHER -> "meta"

\* the responses the API gives a request of main(): to the family in focus any
\* of success, a retryable failure and a fatal one
SyncResponses ==
    IF srv.focus = FamilyOfPc(pc)
    THEN {[status |-> 200, retry_after |-> None, body |-> "json"],
          [status |-> 503, retry_after |-> None, body |-> "json"],
          [status |-> 404, retry_after |-> None, body |-> "json"]}
    ELSE {[status |-> 200, retry_after |-> None, body |-> "json"]}

\* the locals of main() and of its callees are gone
FrameGone ==
    /\ gw' = GwIdle
    /\ req' = NoReq
    /\ page' = NoPage
    /\ sub' = NoSub
    /\ nfetch' = 0
    /\ seen' = <<>>
    /\ start' = <<>>

\* the bootstrap time a coordinator computes: none when a checkpoint is stored
Bootstrapped(lastv) ==
    IF Truthy(lastv) THEN <<>> ELSE <<clock, initial_start_time_epoch(clock, hours)>>

\* params of the first users request
users_initial_params_NoCursor(lastv) ==
    [url |-> "first", cursor |-> None,
     start_time |-> <<initial_start_time_epoch(clock, hours)>>]

users_initial_params(lastv) ==
    IF Truthy(lastv)
    THEN [url |-> "first", cursor |-> lastv, start_time |-> <<>>]
    ELSE [url |-> "first", cursor |-> None,
          start_time |-> <<initial_start_time_epoch(clock, hours)>>]

ticket_initial_params_Bootstrap(last_cursor) ==
    [url |-> "first", cursor |-> last_cursor,
     start_time |-> <<initial_start_time_epoch(clock, hours)>>]

ticket_initial_params(last_cursor) ==
    IF Truthy(last_cursor)
    THEN [url |-> "first", cursor |-> last_cursor, start_time |-> <<>>]
    ELSE [url |-> "first", cursor |-> None,
          start_time |-> <<initial_start_time_epoch(clock, hours)>>]

\* params of the first request of a time export
epoch_initial_params(last_epoch) ==
    [url |-> "first", cursor |-> None,
     start_time |-> IF Truthy(last_epoch) THEN <<IntOf(last_epoch)>>
                    ELSE <<initial_start_time_epoch(clock, hours)>>]

\* the request for the page behind a link
FollowUp(url) == [url |-> url, cursor |-> None, start_time |-> <<>>]

\* the tokens set_cursor_val has overwritten with another one
Superseded(resource, token) ==
    LET cur == get_cursor_val(db, resource) IN
    IF cur # None /\ cur # token THEN old \cup {<<resource, cur>>} ELSE old

\* the records of the page have all been handled
RecordsDone_Always(pg) == TRUE

RecordsDone(pg) == pg.recs = <<>>

StartRun ==
    /\ ~Running
    /\ runs < MaxRuns
    /\ runs' = runs + 1
    /\ ckAtStart' = db.sync_state
    /\ pc' = "sync_users"
    /\ FrameGone
    /\ pruned' = {}
    /\ files' = IF cfg.DOWNLOAD_ATTACHMENTS THEN ensure_dir(files, ATTACHMENTS_DIR) ELSE files
    /\ prev' = IF pc = "done" /\ srv.mode = "feed" THEN <<db>> ELSE <<>>
    /\ UNCHANGED <<clock, hours, last, nops, cfg, srv, peer, db, old>>

\* api/backup.py: the serverless entry point defaults DOWNLOAD_ATTACHMENTS to
\* false in the environment and runs main() on the same store
handler ==
    /\ ~Running
    /\ runs < MaxRuns
    /\ cfg.DOWNLOAD_ATTACHMENTS
    /\ cfg' = [cfg EXCEPT !.DOWNLOAD_ATTACHMENTS = FALSE]
    /\ runs' = runs + 1
    /\ ckAtStart' = db.sync_state
    /\ pc' = "sync_users"
    /\ FrameGone
    /\ pruned' = {}
    /\ prev' = <<>>
    /\ UNCHANGED <<clock, hours, last, nops, srv, peer, db, old, files>>

\* the family whose coordinator is at pc
CoordinatorOf(p) ==
    CASE p \in {"sync_users", "users_fetch", "users_loop", "users_raw"} -> "users"
      [] p \in {"sync_organizations", "orgs_fetch", "orgs_loop", "orgs_raw"} -> "organizations"
      [] p \in {"sync_ticket_events", "events_fetch", "events_loop", "event_ticket_fetch"} ->
            "ticket_events"
      [] p \in {"sync_" \o MetaFamilies[i] : i \in 1..4}
                \cup {MetaFamilies[i] \o "_fetch" : i \in 1..4}
                \cup {MetaFamilies[i] \o "_loop" : i \in 1..4}
                \cup {MetaFamilies[i] \o "_raw" : i \in 1..4} ->
            "meta"
      [] p \in {"comments_fetch", "comments_loop", "comment_raw", "atts_loop",
                "download_fetch", "att_row", "att_raw"} ->
            IF sub.kind = "event" THEN "ticket_events" ELSE "tickets"
      [] OTHER -> "tickets"

\* the process dies between two statements of the coordinator in focus
Crash ==
    /\ Running
    /\ CoordinatorOf(pc) = IF srv.focus = "comments" THEN "tickets" ELSE srv.focus
    /\ pc' = "crashed"
    /\ FrameGone
    /\ UNCHANGED <<static, pruned, db, files, old, runs, ckAtStart>>

\* one iteration of get_with_retry's loop for the request in flight
Fetch ==
    /\ Running
    /\ gw.st = "running"
    /\ \E r \in SyncResponses : gw' = get_with_retry_step(gw, r)
    /\ UNCHANGED <<static, pruned, start, db, runVars>>

\* the request in flight is the one inside the try of download_attachment,
\* whose `except Exception` catches what get_with_retry raises
Caught_Nothing == FALSE

Caught == pc = "download_fetch"

FetchRaised_Rollback ==
    /\ Running
    /\ gw.st = "raised"
    /\ ~Caught
    /\ pc' = "failed"
    /\ FrameGone
    /\ db' = [db EXCEPT !.sync_state = ckAtStart]
    /\ UNCHANGED <<static, pruned, files, old, runs, ckAtStart>>

\* get_with_retry raised and nothing in main() catches it
FetchRaised ==
    /\ Running
    /\ gw.st = "raised"
    /\ ~Caught
    /\ pc' = "failed"
    /\ FrameGone
    /\ UNCHANGED <<static, pruned, db, files, old, runs, ckAtStart>>

\* ---- sync_users --------------------------------------------------------

SyncUsers ==
    /\ pc = "sync_users"
    /\ LET lastv == get_cursor_val(db, "users") IN
        /\ req' = users_initial_params(lastv)
        /\ start' = Bootstrapped(lastv)
    /\ gw' = GwEnter(FALSE)
    /\ pc' = "users_fetch"
    /\ nfetch' = 0
    /\ seen' = <<>>
    /\ UNCHANGED <<static, pruned, db, files, old, runs, ckAtStart, page, sub>>

UsersPage ==
    /\ pc = "users_fetch"
    /\ gw.st = "returned"
    /\ \E pg \in ServerPages("users", nfetch) : page' = pg
    /\ gw' = GwIdle
    /\ nfetch' = nfetch + 1
    /\ pc' = "users_loop"
    /\ UNCHANGED <<static, pruned, start, db, files, old, runs, ckAtStart, req, sub, seen>>

UsersRow ==
    /\ pc = "users_loop"
    /\ ~RecordsDone(page)
    /\ db' = upsert_user_typed(db, Head(page.recs))
    /\ pc' = "users_raw"
    /\ UNCHANGED <<static, pruned, start, gw, files, old, runs, ckAtStart, req, page, sub, nfetch, seen>>

UsersRaw ==
    /\ pc = "users_raw"
    /\ db' = upsert_user_raw(db, Head(page.recs))
    /\ page' = [page EXCEPT !.recs = Tail(@)]
    /\ pc' = "users_loop"
    /\ UNCHANGED <<static, pruned, start, gw, files, old, runs, ckAtStart, req, sub, nfetch, seen>>

\* the end of the page: the token, the end of stream, the next page
UsersCursor ==
    /\ pc = "users_loop"
    /\ RecordsDone(page)
    /\ LET ac == page.after_cursor IN
        /\ db' = IF Truthy(ac) THEN set_cursor_val(db, "users", ac) ELSE db
        /\ old' = IF Truthy(ac) THEN Superseded("users", ac) ELSE old
    /\ seen' = Append(seen, [tok |-> page.after_cursor, eos |-> page.end_of_stream,
                             pos |-> page.pos])
    /\ IF ~page.end_of_stream /\ Truthy(AfterUrl(page))
       THEN /\ req' = FollowUp(AfterUrl(page))
            /\ gw' = GwEnter(FALSE)
            /\ pc' = "users_fetch"
       ELSE /\ req' = NoReq
            /\ gw' = GwIdle
            /\ pc' = "sync_organizations"
    /\ page' = NoPage
    /\ UNCHANGED <<static, pruned, start, files, runs, ckAtStart, sub, nfetch>>

\* ---- sync_organizations ------------------------------------------------

\* `if SKIP_ORGANIZATIONS: return`
Skipped_Never == FALSE

Skipped == cfg.SKIP_ORGANIZATIONS

SyncOrganizations ==
    /\ pc = "sync_organizations"
    /\ IF Skipped
       THEN /\ pc' = "sync_tickets"
            /\ UNCHANGED <<req, start, gw>>
       ELSE LET last_epoch == get_cursor_val(db, "organizations") IN
            /\ req' = epoch_initial_params(last_epoch)
            /\ start' = Bootstrapped(last_epoch)
            /\ gw' = GwEnter(FALSE)
            /\ pc' = "orgs_fetch"
    /\ nfetch' = 0
    /\ seen' = <<>>
    /\ UNCHANGED <<static, pruned, db, files, old, runs, ckAtStart, page, sub>>

OrgsPage ==
    /\ pc = "orgs_fetch"
    /\ gw.st = "returned"
    /\ \E pg \in ServerPages("organizations", nfetch) : page' = pg
    /\ gw' = GwIdle
    /\ nfetch' = nfetch + 1
    /\ pc' = "orgs_loop"
    /\ UNCHANGED <<static, pruned, start, db, files, old, runs, ckAtStart, req, sub, seen>>

OrgsRow ==
    /\ pc = "orgs_loop"
    /\ page.recs # <<>>
    /\ db' = upsert_org_typed(db, Head(page.recs))
    /\ pc' = "orgs_raw"
    /\ UNCHANGED <<static, pruned, start, gw, files, old, runs, ckAtStart, req, page, sub, nfetch, seen>>

OrgsRaw ==
    /\ pc = "orgs_raw"
    /\ db' = upsert_org_raw(db, Head(page.recs))
    /\ page' = [page EXCEPT !.recs = Tail(@)]
    /\ pc' = "orgs_loop"
    /\ UNCHANGED <<static, pruned, start, gw, files, old, runs, ckAtStart, req, sub, nfetch, seen>>

\* the end of the page: end_time to the checkpoint, then next_page
OrgsEnd ==
    /\ pc = "orgs_loop"
    /\ page.recs = <<>>
    /\ LET end_time == page.end_time IN
        /\ db' = IF end_time # 0
                 THEN set_cursor_val(db, "organizations", Str(end_time)) ELSE db
        /\ old' = IF end_time # 0 THEN Superseded("organizations", Str(end_time)) ELSE old
    /\ IF Truthy(page.next_page)
       THEN /\ req' = FollowUp(page.next_page)
            /\ gw' = GwEnter(FALSE)
            /\ pc' = "orgs_fetch"
       ELSE /\ req' = NoReq
            /\ gw' = GwIdle
            /\ pc' = "sync_tickets"
    /\ page' = NoPage
    /\ UNCHANGED <<static, pruned, start, files, runs, ckAtStart, sub, nfetch, seen>>

\* ---- sync_tickets_comments_attachments ---------------------------------

\* str.lower() of a ticket status
Lower(s) == IF s = "Closed" THEN "closed" ELSE s

\* (t.get("status") or "").lower() == "closed"
IsClosed(status) == Lower(OrElse(status, "")) = "closed"

\* the target of an attachment, as the string stored in local_path
TargetOf(ticket_id, a) == Text(target_path(ticket_id, a.id, Chars(a.file_name)))

\* target.exists() and target.stat().st_size > 0
Downloaded_Never(target) == FALSE

Downloaded(target) == \E f \in files : f.path = target /\ f.size > 0

\* the comments loop of one ticket
TicketSub(tid) ==
    [kind |-> "ticket", tid |-> tid, n |-> 0, next |-> None, crecs |-> <<>>,
     atts |-> <<>>, local |-> None]

SyncTickets ==
    /\ pc = "sync_tickets"
    /\ LET lastv == get_cursor_val(db, "tickets") IN
        /\ req' = ticket_initial_params(lastv)
        /\ start' = Bootstrapped(lastv)
    /\ gw' = GwEnter(FALSE)
    /\ pc' = "tickets_fetch"
    /\ nfetch' = 0
    /\ seen' = <<>>
    /\ UNCHANGED <<static, pruned, db, files, old, runs, ckAtStart, page, sub>>

TicketsPage ==
    /\ pc = "tickets_fetch"
    /\ gw.st = "returned"
    /\ \E pg \in ServerPages("tickets", nfetch) : page' = pg
    /\ gw' = GwIdle
    /\ nfetch' = nfetch + 1
    /\ pc' = "tickets_loop"
    /\ UNCHANGED <<static, pruned, start, db, files, old, runs, ckAtStart, req, sub, seen>>

\* CLOSED_TICKETS_ONLY and the ticket is not closed
Filtered_Never(t) == FALSE

Filtered(t) == cfg.CLOSED_TICKETS_ONLY /\ ~IsClosed(t.status)

\* if PRUNE_REOPENED_FROM_DB, for a ticket the filter rejects
ShouldPrune_Always == TRUE

ShouldPrune == cfg.PRUNE_REOPENED_FROM_DB

TicketSkip ==
    /\ pc = "tickets_loop"
    /\ ~RecordsDone(page)
    /\ Filtered(Head(page.recs))
    /\ ~ShouldPrune
    /\ page' = [page EXCEPT !.recs = Tail(@)]
    /\ UNCHANGED <<static, pruned, start, gw, db, files, old, runs, ckAtStart, pc, req, sub,
                   nfetch, seen>>

\* delete_ticket: three statements on an autocommit connection
delete_attachments_of(d, ticket_id) ==
    [d EXCEPT !.attachments = {r \in @ : r.ticket_id # ticket_id}]

delete_comments_of_None(d, ticket_id) == d

delete_comments_of(d, ticket_id) ==
    [d EXCEPT !.ticket_comments = {r \in @ : r.ticket_id # ticket_id}]

\* a delete that took the ticket's snapshot with its row
delete_ticket_row_Cascade(d, ticket_id) ==
    [d EXCEPT !.tickets = {r \in @ : r.id # ticket_id},
              !.raw_snapshots =
                    {r \in @ : ~(r.resource = "tickets" /\ r.entity_id = ticket_id)}]

delete_ticket_row(d, ticket_id) == [d EXCEPT !.tickets = {r \in @ : r.id # ticket_id}]

DeleteAttachments ==
    /\ pc = "tickets_loop"
    /\ ~RecordsDone(page)
    /\ Filtered(Head(page.recs))
    /\ ShouldPrune
    /\ db' = delete_attachments_of(db, Head(page.recs).id)
    /\ pruned' = pruned \cup {Head(page.recs).id}
    /\ pc' = "delete_comments"
    /\ UNCHANGED <<static, start, gw, files, old, runs, ckAtStart, req, page, sub,
                   nfetch, seen>>

DeleteComments ==
    /\ pc = "delete_comments"
    /\ db' = delete_comments_of(db, Head(page.recs).id)
    /\ pc' = "delete_row"
    /\ UNCHANGED <<static, pruned, start, gw, files, old, runs, ckAtStart, req, page, sub,
                   nfetch, seen>>

DeleteTicketRow ==
    /\ pc = "delete_row"
    /\ db' = delete_ticket_row(db, Head(page.recs).id)
    /\ page' = [page EXCEPT !.recs = Tail(@)]
    /\ pc' = "tickets_loop"
    /\ UNCHANGED <<static, pruned, start, gw, files, old, runs, ckAtStart, req, sub, nfetch, seen>>

\* comments are taken from the ticket events export, not ticket by ticket
FromEvents_Never == FALSE

FromEvents == cfg.USE_TICKET_EVENTS_FOR_COMMENTS

TicketRow ==
    /\ pc = "tickets_loop"
    /\ ~RecordsDone(page)
    /\ ~Filtered(Head(page.recs))
    /\ db' = upsert_ticket_typed(db, Head(page.recs))
    /\ pc' = "ticket_raw"
    /\ UNCHANGED <<static, pruned, start, gw, files, old, runs, ckAtStart, req, page, sub,
                   nfetch, seen>>

\* upsert_raw of the ticket, then the first request of its comments
TicketRaw ==
    /\ pc = "ticket_raw"
    /\ db' = upsert_ticket_raw(db, Head(page.recs))
    /\ IF FromEvents
       THEN /\ page' = [page EXCEPT !.recs = Tail(@)]
            /\ pc' = "tickets_loop"
            /\ UNCHANGED <<sub, gw>>
       ELSE /\ sub' = TicketSub(Head(page.recs).id)
            /\ gw' = GwEnter(FALSE)
            /\ pc' = "comments_fetch"
            /\ page' = page
    /\ UNCHANGED <<static, pruned, start, files, old, runs, ckAtStart, req, nfetch, seen>>

CommentsPage ==
    /\ pc = "comments_fetch"
    /\ gw.st = "returned"
    /\ \E pg \in ServerPages("comments", sub.n) :
        sub' = [sub EXCEPT !.crecs = pg.recs, !.next = NextUrl(pg), !.n = @ + 1]
    /\ gw' = GwIdle
    /\ pc' = "comments_loop"
    /\ UNCHANGED <<static, pruned, start, db, files, old, runs, ckAtStart, req, page, nfetch, seen>>

\* upsert_comment, at lines 570 and 608
CommentRow ==
    /\ pc = "comments_loop"
    /\ sub.crecs # <<>>
    /\ db' = upsert_comment_typed(db, sub.tid, Head(sub.crecs))
    /\ pc' = "comment_raw"
    /\ UNCHANGED <<static, pruned, start, gw, files, old, runs, ckAtStart, req, page, sub,
                   nfetch, seen>>

CommentRaw ==
    /\ pc = "comment_raw"
    /\ db' = upsert_comment_raw(db, Head(sub.crecs))
    /\ sub' = [sub EXCEPT !.atts = Head(sub.crecs).attachments]
    /\ pc' = "atts_loop"
    /\ UNCHANGED <<static, pruned, start, gw, files, old, runs, ckAtStart, req, page, nfetch, seen>>

\* `if not DOWNLOAD_ATTACHMENTS: return None`, `if not url: return None`
NothingToFetch_UrlOnly(a) == ~Truthy(a.content_url)

NothingToFetch(a) == ~cfg.DOWNLOAD_ATTACHMENTS \/ ~Truthy(a.content_url)

\* download_attachment up to its request
DownloadAttachment ==
    /\ pc = "atts_loop"
    /\ sub.atts # <<>>
    /\ LET a == Head(sub.atts)
           target == TargetOf(sub.tid, a)
       IN  IF NothingToFetch(a)
           THEN /\ sub' = [sub EXCEPT !.local = None]
                /\ pc' = "att_row"
                /\ gw' = gw
                /\ files' = files
           ELSE /\ files' = ensure_dir(files, base_dir(sub.tid))
                /\ IF Downloaded(target)
                   THEN /\ sub' = [sub EXCEPT !.local = target]
                        /\ pc' = "att_row"
                        /\ gw' = gw
                   ELSE /\ gw' = GwEnter(TRUE)
                        /\ pc' = "download_fetch"
                        /\ sub' = sub
    /\ UNCHANGED <<static, pruned, start, db, old, runs, ckAtStart, req, page, nfetch, seen>>

\* the body of the response written to the target: all of it, or an
\* exception after some of it, or before any of it, or open() itself raising
DownloadOutcomes ==
    IF srv.focus = FamilyOfPc(pc)
    THEN {"complete", "partial", "empty", "refused"}
    ELSE {"complete"}

SizeOf(outcome) ==
    CASE outcome = "complete" -> 2
      [] outcome = "partial" -> 1
      [] OTHER -> 0

DownloadWrite ==
    /\ pc = "download_fetch"
    /\ gw.st = "returned"
    /\ \E outcome \in DownloadOutcomes :
        LET target == TargetOf(sub.tid, Head(sub.atts)) IN
        /\ files' = IF outcome = "refused" THEN files
                     ELSE {f \in files : f.path # target}
                            \cup {[path |-> target, size |-> SizeOf(outcome)]}
        /\ sub' = [sub EXCEPT !.local = IF outcome = "complete" THEN target ELSE None]
    /\ gw' = GwIdle
    /\ pc' = "att_row"
    /\ UNCHANGED <<static, pruned, start, db, old, runs, ckAtStart, req, page, nfetch, seen>>

\* get_with_retry raised inside the try of download_attachment
DownloadFailed ==
    /\ pc = "download_fetch"
    /\ gw.st = "raised"
    /\ sub' = [sub EXCEPT !.local = None]
    /\ gw' = GwIdle
    /\ pc' = "att_row"
    /\ UNCHANGED <<static, pruned, start, db, files, old, runs, ckAtStart, req, page, nfetch, seen>>

AttachmentRow ==
    /\ pc = "att_row"
    /\ db' = upsert_attachment_typed(db, sub.tid, Head(sub.crecs).id, Head(sub.atts),
                                     sub.local)
    /\ pc' = "att_raw"
    /\ UNCHANGED <<static, pruned, start, gw, files, old, runs, ckAtStart, req, page, sub,
                   nfetch, seen>>

AttachmentRaw ==
    /\ pc = "att_raw"
    /\ db' = upsert_attachment_raw(db, Head(sub.atts))
    /\ sub' = [sub EXCEPT !.atts = Tail(@), !.local = None]
    /\ pc' = "atts_loop"
    /\ UNCHANGED <<static, pruned, start, gw, files, old, runs, ckAtStart, req, page, nfetch, seen>>

\* the attachments of the comment are done: the next comment
AttachmentsDone ==
    /\ pc = "atts_loop"
    /\ sub.atts = <<>>
    /\ sub' = [sub EXCEPT !.crecs = Tail(@)]
    /\ pc' = "comments_loop"
    /\ UNCHANGED <<static, pruned, start, gw, db, files, old, runs, ckAtStart, req, page,
                   nfetch, seen>>

\* the comments in hand are done: the next page of comments (iter_list_pages),
\* or the next ticket, or the next event
CommentsDone ==
    /\ pc = "comments_loop"
    /\ sub.crecs = <<>>
    /\ IF sub.kind = "ticket" /\ Truthy(sub.next)
       THEN /\ gw' = GwEnter(FALSE)
            /\ pc' = "comments_fetch"
            /\ UNCHANGED <<sub, page>>
       ELSE /\ sub' = NoSub
            /\ page' = [page EXCEPT !.recs = Tail(@)]
            /\ pc' = IF sub.kind = "ticket" THEN "tickets_loop" ELSE "events_loop"
            /\ gw' = gw
    /\ UNCHANGED <<static, pruned, start, db, files, old, runs, ckAtStart, req, nfetch, seen>>

TicketsCursor ==
    /\ pc = "tickets_loop"
    /\ RecordsDone(page)
    /\ LET ac == page.after_cursor IN
        /\ db' = IF Truthy(ac) THEN set_cursor_val(db, "tickets", ac) ELSE db
        /\ old' = IF Truthy(ac) THEN Superseded("tickets", ac) ELSE old
    /\ seen' = Append(seen, [tok |-> page.after_cursor, eos |-> page.end_of_stream,
                             pos |-> page.pos])
    /\ IF ~page.end_of_stream /\ Truthy(AfterUrl(page))
       THEN /\ req' = FollowUp(AfterUrl(page))
            /\ gw' = GwEnter(FALSE)
            /\ pc' = "tickets_fetch"
       ELSE /\ req' = NoReq
            /\ gw' = GwIdle
            /\ pc' = IF cfg.USE_TICKET_EVENTS_FOR_COMMENTS
                     THEN "sync_ticket_events" ELSE "sync_views"
    /\ page' = NoPage
    /\ UNCHANGED <<static, pruned, start, files, runs, ckAtStart, sub, nfetch>>

\* ---- sync_ticket_events_for_comments -----------------------------------

\* the comment built from a child event
comment_of_event(ce) ==
    [id |-> ce.id, body |-> ce.body, public |-> ce.public, created_at |-> ce.created_at,
     updated_at |-> ce.created_at, attachments |-> ce.attachments]

\* all child events taken for comments
CommentEvents_All(ev) ==
    [i \in 1..Len(ev.child_events) |-> comment_of_event(ev.child_events[i])]

\* the child events that are comments, as comments, in order
CommentEvents(ev) ==
    LET cs == SelectSeq(ev.child_events,
                        LAMBDA ce : OrElse(ce.event_type, ce.type) = "Comment")
    IN  [i \in 1..Len(cs) |-> comment_of_event(cs[i])]

\* the event in hand; status is what the lookup of its ticket returned
\* (None when no lookup was made)
EventSub(ev, status) ==
    [kind |-> "event", tid |-> ev.ticket_id, n |-> 0, next |-> None,
     crecs |-> CommentEvents(ev), atts |-> <<>>, local |-> None, status |-> status]

\* the event passed over: the lookup of its ticket returned another status
SkippedSub(ev, status) == [kind |-> "skipped", tid |-> ev.ticket_id, status |-> status]

\* the status of the ticket an event belongs to, as the API reports it
EventTicketStatuses ==
    IF srv.focus = "ticket_events" THEN {"closed", "open", None} ELSE {"closed"}

SyncTicketEvents ==
    /\ pc = "sync_ticket_events"
    /\ LET last_epoch == get_cursor_val(db, "ticket_events") IN
        /\ req' = epoch_initial_params(last_epoch)
        /\ start' = Bootstrapped(last_epoch)
    /\ gw' = GwEnter(FALSE)
    /\ pc' = "events_fetch"
    /\ nfetch' = 0
    /\ seen' = <<>>
    /\ UNCHANGED <<static, pruned, db, files, old, runs, ckAtStart, page, sub>>

EventsPage ==
    /\ pc = "events_fetch"
    /\ gw.st = "returned"
    /\ \E pg \in ServerPages("ticket_events", nfetch) : page' = pg
    /\ gw' = GwIdle
    /\ nfetch' = nfetch + 1
    /\ pc' = "events_loop"
    /\ UNCHANGED <<static, pruned, start, db, files, old, runs, ckAtStart, req, sub, seen>>

\* the next event: with CLOSED_TICKETS_ONLY its ticket is asked for first
EventNext ==
    /\ pc = "events_loop"
    /\ page.recs # <<>>
    /\ IF cfg.CLOSED_TICKETS_ONLY
       THEN /\ gw' = GwEnter(FALSE)
            /\ pc' = "event_ticket_fetch"
            /\ sub' = NoSub
       ELSE /\ sub' = EventSub(Head(page.recs), None)
            /\ pc' = "comments_loop"
            /\ gw' = gw
    /\ UNCHANGED <<static, pruned, start, db, files, old, runs, ckAtStart, req, page, nfetch, seen>>

EventTicket ==
    /\ pc = "event_ticket_fetch"
    /\ gw.st = "returned"
    /\ \E status \in EventTicketStatuses :
        IF ~IsClosed(status)
        THEN /\ page' = [page EXCEPT !.recs = Tail(@)]
             /\ pc' = "events_loop"
             /\ sub' = SkippedSub(Head(page.recs), status)
        ELSE /\ sub' = EventSub(Head(page.recs), status)
             /\ pc' = "comments_loop"
             /\ page' = page
    /\ gw' = GwIdle
    /\ UNCHANGED <<static, pruned, start, db, files, old, runs, ckAtStart, req, nfetch, seen>>

\* the end of the page: next_page, else end_time to the checkpoint
EventsEnd ==
    /\ pc = "events_loop"
    /\ page.recs = <<>>
    /\ IF Truthy(page.next_page)
       THEN /\ req' = FollowUp(page.next_page)
            /\ gw' = GwEnter(FALSE)
            /\ pc' = "events_fetch"
            /\ UNCHANGED <<db, old>>
       ELSE /\ db' = IF page.end_time # 0
                     THEN set_cursor_val(db, "ticket_events", Str(page.end_time)) ELSE db
            /\ old' = IF page.end_time # 0
                      THEN Superseded("ticket_events", Str(page.end_time)) ELSE old
            /\ req' = NoReq
            /\ gw' = GwIdle
            /\ pc' = "sync_views"
    /\ page' = NoPage
    /\ sub' = NoSub
    /\ UNCHANGED <<static, pruned, start, files, runs, ckAtStart, nfetch, seen>>

\* ---- sync_views, sync_triggers, sync_trigger_categories, sync_macros ----

\* what main() calls after the metadata family
AfterMeta_Done(f) == "done"

AfterMeta(f) ==
    CASE f = "views" -> "sync_triggers"
      [] f = "triggers" -> "sync_trigger_categories"
      [] f = "trigger_categories" -> "sync_macros"
      [] OTHER -> "done"

SyncMeta(f) ==
    /\ pc = "sync_" \o f
    /\ gw' = GwEnter(FALSE)
    /\ pc' = f \o "_fetch"
    /\ nfetch' = 0
    /\ seen' = <<>>
    /\ start' = <<>>
    /\ UNCHANGED <<static, pruned, db, files, old, runs, ckAtStart, req, page, sub>>

SyncViews == SyncMeta("views")

SyncTriggers == SyncMeta("triggers")

SyncTriggerCategories == SyncMeta("trigger_categories")

SyncMacros == SyncMeta("macros")

MetaPage ==
    \E f \in {MetaFamilies[i] : i \in 1..4} :
        /\ pc = f \o "_fetch"
        /\ gw.st = "returned"
        /\ \E pg \in ServerPages(f, nfetch) : page' = pg
        /\ gw' = GwIdle
        /\ nfetch' = nfetch + 1
        /\ pc' = f \o "_loop"
        /\ UNCHANGED <<static, pruned, start, db, files, old, runs, ckAtStart, req, sub, seen>>

MetaRow ==
    \E f \in {MetaFamilies[i] : i \in 1..4} :
        /\ pc = f \o "_loop"
        /\ page.recs # <<>>
        /\ db' = upsert_meta_typed(f, db, Head(page.recs))
        /\ pc' = f \o "_raw"
        /\ UNCHANGED <<static, pruned, start, gw, files, old, runs, ckAtStart, req, page,
                       sub, nfetch, seen>>

MetaRaw ==
    \E f \in {MetaFamilies[i] : i \in 1..4} :
        /\ pc = f \o "_raw"
        /\ db' = upsert_meta_raw(f, db, Head(page.recs))
        /\ page' = [page EXCEPT !.recs = Tail(@)]
        /\ pc' = f \o "_loop"
        /\ UNCHANGED <<static, pruned, start, gw, files, old, runs, ckAtStart, req, sub,
                       nfetch, seen>>

\* the end of the page: the next one, or the end of the family; after the
\* macros main() returns
MetaEnd ==
    \E f \in {MetaFamilies[i] : i \in 1..4} :
        /\ pc = f \o "_loop"
        /\ page.recs = <<>>
        /\ IF Truthy(NextUrl(page))
           THEN /\ gw' = GwEnter(FALSE)
                /\ pc' = f \o "_fetch"
           ELSE /\ gw' = GwIdle
                /\ pc' = AfterMeta(f)
        /\ page' = NoPage
        /\ UNCHANGED <<static, pruned, start, db, files, old, runs, ckAtStart, req, sub,
                       nfetch, seen>>

-----------------------------------------------------------------------------
(***************************************************************************)
(* Spec: runs of main() against an API that answers at will                *)
(* SpecFeed: runs of main() against the ordered incremental feed           *)
(***************************************************************************)

Flags(closed, prune, events, skip, download) ==
    [CLOSED_TICKETS_ONLY |-> closed, PRUNE_REOPENED_FROM_DB |-> prune,
     USE_TICKET_EVENTS_FOR_COMMENTS |-> events, SKIP_ORGANIZATIONS |-> skip,
     DOWNLOAD_ATTACHMENTS |-> download]

\* the configurations of the runs, by the family the API varies its answers to
Setups ==
    {<<"users", DefaultCfg>>, <<"organizations", DefaultCfg>>,
     <<"none", Flags(FALSE, FALSE, FALSE, TRUE, FALSE)>>,
     <<"tickets", Flags(TRUE, TRUE, FALSE, TRUE, FALSE)>>,
     <<"tickets", Flags(TRUE, FALSE, FALSE, TRUE, FALSE)>>,
     <<"tickets", Flags(TRUE, TRUE, TRUE, TRUE, FALSE)>>,
     <<"comments", Flags(FALSE, FALSE, FALSE, TRUE, TRUE)>>,
     <<"ticket_events", Flags(FALSE, FALSE, TRUE, TRUE, TRUE)>>,
     <<"ticket_events", Flags(TRUE, FALSE, TRUE, TRUE, FALSE)>>}

InitRun(mode, setups, withheld) ==
    /\ clock = ClockBase
    /\ hours = MaxHours
    /\ start = <<>>
    /\ gw = GwIdle
    /\ db = EmptyDb
    /\ last = NoOp
    /\ nops = 0
    /\ \E s \in setups, w \in withheld :
        /\ cfg = s[2]
        /\ srv = [mode |-> mode, focus |-> s[1], tokenless |-> w]
    /\ pc = "idle"
    /\ runs = 0
    /\ req = NoReq
    /\ page = NoPage
    /\ sub = NoSub
    /\ files = {}
    /\ nfetch = 0
    /\ seen = <<>>
    /\ ckAtStart = {}
    /\ old = {}
    /\ pruned = {}
    /\ prev = <<>>
    /\ peer = NoPeer

Init == InitRun("any", Setups, {{}})

Next ==
    \/ StartRun
    \/ Crash
    \/ Fetch
    \/ FetchRaised
    \/ SyncUsers
    \/ UsersPage
    \/ UsersRow
    \/ UsersRaw
    \/ UsersCursor
    \/ SyncOrganizations
    \/ OrgsPage
    \/ OrgsRow
    \/ OrgsRaw
    \/ OrgsEnd
    \/ SyncTickets
    \/ TicketsPage
    \/ TicketSkip
    \/ DeleteAttachments
    \/ DeleteComments
    \/ DeleteTicketRow
    \/ TicketRow
    \/ TicketRaw
    \/ CommentsPage
    \/ CommentRow
    \/ CommentRaw
    \/ DownloadAttachment
    \/ DownloadWrite
    \/ DownloadFailed
    \/ AttachmentRow
    \/ AttachmentRaw
    \/ AttachmentsDone
    \/ CommentsDone
    \/ TicketsCursor
    \/ SyncTicketEvents
    \/ EventsPage
    \/ EventNext
    \/ EventTicket
    \/ EventsEnd
    \/ SyncViews
    \/ SyncTriggers
    \/ SyncTriggerCategories
    \/ SyncMacros
    \/ MetaPage
    \/ MetaRow
    \/ MetaRaw
    \/ MetaEnd

Spec == Init /\ [][Next]_vars

FeedSetups ==
    {<<"users", DefaultCfg>>,
     <<"tickets", Flags(FALSE, FALSE, FALSE, TRUE, TRUE)>>,
     <<"tickets", Flags(TRUE, TRUE, TRUE, FALSE, FALSE)>>,
     <<"tickets", Flags(TRUE, FALSE, FALSE, TRUE, FALSE)>>,
     <<"comments", Flags(FALSE, FALSE, FALSE, TRUE, TRUE)>>}

InitFeed == InitRun("feed", FeedSetups, SUBSET (1..FeedLen))

SpecFeed == InitFeed /\ [][Next]_vars

\* main() is a sequential program that keeps executing: a step that can be
\* taken is taken
LiveSetups == Setups \ {<<"tickets", Flags(TRUE, TRUE, FALSE, TRUE, FALSE)>>}

InitLive == InitRun("any", LiveSetups, {{}})

SpecLive == InitLive /\ [][Next]_vars /\ WF_vars(Next)

\* the runs of main() started from the command line or by the handler
NextHandler == Next \/ handler

SpecHandler == Init /\ [][NextHandler]_vars

-----------------------------------------------------------------------------
(***************************************************************************)
(* SpecRace: two processes run sync_users on one store. Each statement of  *)
(* the coordinator is one step of the process in control; the scheduler    *)
(* may hand control to the other process between any two statements.       *)
(***************************************************************************)

\* the locals of the process in control
Frame ==
    [pc |-> pc, req |-> req, page |-> page, gw |-> gw, nfetch |-> nfetch,
     seen |-> seen, start |-> start]

InitRace ==
    /\ clock = ClockBase
    /\ hours = MaxHours
    /\ start = <<>>
    /\ gw = GwIdle
    /\ db = EmptyDb
    /\ last = NoOp
    /\ nops = 0
    /\ cfg = DefaultCfg
    /\ \E w \in SUBSET (1..FeedLen) :
            srv = [mode |-> "feed", focus |-> "users", tokenless |-> w]
    /\ pc = "sync_users"
    /\ runs = 2
    /\ req = NoReq
    /\ page = NoPage
    /\ sub = NoSub
    /\ files = {}
    /\ nfetch = 0
    /\ seen = <<>>
    /\ ckAtStart = {}
    /\ old = {}
    /\ pruned = {}
    /\ prev = <<>>
    /\ peer = [pc |-> "sync_users", req |-> NoReq, page |-> NoPage, gw |-> GwIdle,
               nfetch |-> 0, seen |-> <<>>, start |-> <<>>]

\* the other process gets the processor
Switch ==
    /\ peer.pc # "none"
    /\ peer' = Frame
    /\ pc' = peer.pc
    /\ req' = peer.req
    /\ page' = peer.page
    /\ gw' = peer.gw
    /\ nfetch' = peer.nfetch
    /\ seen' = peer.seen
    /\ start' = peer.start
    /\ UNCHANGED <<clock, hours, last, nops, cfg, srv, prev, db, files, old, runs,
                   ckAtStart, pruned, sub>>

NextRace ==
    \/ Switch
    \/ SyncUsers
    \/ Fetch
    \/ FetchRaised
    \/ UsersPage
    \/ UsersRow
    \/ UsersRaw
    \/ UsersCursor

SpecRace == InitRace /\ [][NextRace]_vars

-----------------------------------------------------------------------------
(***************************************************************************)
(* Claims                                                                  *)
(***************************************************************************)

\* the typed table each upsert helper writes
TableOf(d, op) ==
    CASE op = "upsert_user" -> d.users
      [] op = "upsert_org" -> d.organizations
      [] op = "upsert_ticket" -> d.tickets
      [] op = "upsert_comment" -> d.ticket_comments
      [] op = "upsert_attachment" -> d.attachments
      [] op = "upsert_view" -> d.views
      [] op = "upsert_trigger" -> d.triggers
      [] op = "upsert_trigger_category" -> d.trigger_categories
      [] op = "upsert_macro" -> d.macros
      [] OTHER -> {}

TypedTables(d) ==
    {d.users, d.organizations, d.tickets, d.ticket_comments, d.attachments, d.views,
     d.triggers, d.trigger_categories, d.macros}

UniqueIds(table) == \A r1, r2 \in table : r1.id = r2.id => r1 = r2

\* the primary id of the typed row the operation o writes
TypedIdOf(o) == IF o.op = "upsert_trigger_category" THEN Str(o.payload.id) ELSE o.payload.id

\* C1: applying the payload just upserted a second time leaves the store as it
\* is, with exactly one typed row for that primary id, and no table ever holds
\* two rows with the same primary key.
C1_IdempotentUpsert ==
    /\ last # NoOp =>
            /\ Apply(db, last) = db
            /\ Cardinality({r \in TableOf(db, last.op) : r.id = TypedIdOf(last)}) = 1
    /\ \A table \in TypedTables(db) : UniqueIds(table)
    /\ \A r1, r2 \in db.raw_snapshots :
            r1.resource = r2.resource /\ r1.entity_id = r2.entity_id => r1 = r2

\* a user upserted over a different earlier row with the same id
C1_Witness ==
    /\ nops = 2
    /\ last.op = "upsert_user"
    /\ last.payload.name = "b"
    /\ db.users = {user_row(last.payload)}
    /\ Cardinality(db.raw_snapshots) = 1

\* C5: for every BOOTSTRAP_HOURS (0 and negative values included) and every
\* clock, initial_start_time_epoch returns the whole-second clock minus
\* max(BOOTSTRAP_HOURS * 3600, 120), which is at least 120 seconds before the
\* clock at the call.
C5_BootstrapFloor ==
    start # <<>> =>
        LET now == start[1]
            got == start[2]
            lookback == IF hours * 3600 > 120 THEN hours * 3600 ELSE 120
        IN  /\ got = (now \div 1000) - lookback
            /\ got * 1000 <= now - 120 * 1000

\* a start time computed with a negative lookback at a clock between two seconds
C5_Witness ==
    /\ start # <<>>
    /\ hours < 0
    /\ start[1] % 1000 # 0
    /\ start[2] = (start[1] \div 1000) - 120

\* the statuses get_with_retry neither accepts nor retries
FatalStatuses == Statuses \ ({200} \cup {429, 500, 502, 503, 504})

\* C6 as stated: 200 ends the call with success; 429, 500, 502, 503, 504 are
\* retried; every other status ends the call at once with a fatal error carrying
\* the status, with no sleep for it and no further request.
C6_AsStated ==
    gw.attempt >= 1 =>
        /\ gw.status = 200 => gw.st = "returned"
        /\ gw.status \in {429, 500, 502, 503, 504} =>
                ~(gw.st = "returned") /\ ~(gw.st = "raised" /\ gw.exc = "status")
        /\ gw.status \in FatalStatuses =>
                /\ gw.st = "raised" /\ gw.exc = "status"
                /\ Len(gw.sleeps) = gw.attempt - 1

\* C6 amended: as C6, but a 200 whose body is read as JSON (not stream mode)
\* ends the call with success only when the body parses, and with the parser's
\* error otherwise; either way the 200 ends the call.
C6_Classification ==
    gw.attempt >= 1 =>
        /\ gw.status = 200 =>
                \/ gw.st = "returned"
                \/ gw.st = "raised" /\ gw.exc = "JSONDecodeError" /\ ~gw.stream
        /\ gw.status \in {429, 500, 502, 503, 504} =>
                ~(gw.st = "returned") /\ ~(gw.st = "raised" /\ gw.exc = "status")
        /\ gw.status \in FatalStatuses =>
                /\ gw.st = "raised" /\ gw.exc = "status"
                /\ Len(gw.sleeps) = gw.attempt - 1
        /\ gw.st = "returned" => gw.status = 200
        /\ gw.st = "raised" /\ gw.exc = "status" => gw.status \in FatalStatuses

\* a 201 that followed two retried responses ended the call with the status error
C6_Witness ==
    /\ gw.st = "raised" /\ gw.exc = "status"
    /\ gw.status = 201
    /\ gw.attempt = 3

\* C7: one call issues at most 8 requests and has ended once the 8th response
\* is in; when all 8 responses carried a retryable status it has ended with the
\* 'exhausted retries' error.
C7_AsStated ==
    /\ gw.attempt <= 8
    /\ gw.attempt = 8 => gw.st # "running"
    /\ gw.attempt = 8 /\ gw.status \in {429, 500, 502, 503, 504} =>
            gw.st = "raised" /\ gw.exc = "exhausted"

\* the backoff sleeps of the call, in order
BackoffSleeps(g) == SelectSeq(g.sleeps, LAMBDA e : ~Truthy(e.hdr))

Pow2(n) == IF n <= 0 THEN 1 ELSE 2 ^ n

\* C8 as stated: a sleep equals the Retry-After delay when the response carries
\* one, and the backoff sleeps of a call are 1, 2, 4, 8, 16, 30, 30, ... in order.
C8_AsStated ==
    /\ \A k \in 1..Len(gw.sleeps) :
            /\ gw.sleeps[k].hdr = "0" => gw.sleeps[k].secs = 0
            /\ gw.sleeps[k].hdr = "5" => gw.sleeps[k].secs = 5
    /\ \A j \in 1..Len(BackoffSleeps(gw)) :
            BackoffSleeps(gw)[j].secs = IF Pow2(j - 1) <= 30 THEN Pow2(j - 1) ELSE 30

\* C8 amended: a sleep equals the Retry-After delay when the response carries a
\* non-empty header; otherwise it equals the backoff, which starts at 1 and
\* doubles after every retryable response of the call (whichever delay that
\* response slept) up to 30: the k-th retryable response sleeps min(2^(k-1), 30).
C8_Backoff ==
    /\ \A k \in 1..Len(gw.sleeps) :
            IF gw.sleeps[k].hdr \in {None, ""}
            THEN gw.sleeps[k].secs = IF Pow2(k - 1) <= 30 THEN Pow2(k - 1) ELSE 30
            ELSE \/ gw.sleeps[k].hdr = "0" /\ gw.sleeps[k].secs = 0
                 \/ gw.sleeps[k].hdr = "5" /\ gw.sleeps[k].secs = 5
    /\ gw.st = "running" =>
            gw.backoff = IF Pow2(Len(gw.sleeps)) <= 30 THEN Pow2(Len(gw.sleeps)) ELSE 30

\* a call that slept the advertised 5, then the backoffs 2, 4, 8, 16, 30, 30
C8_Witness ==
    /\ Len(gw.sleeps) = 7
    /\ gw.sleeps[1].hdr = "5"
    /\ \A k \in 2..7 : gw.sleeps[k].hdr = None
    /\ gw.sleeps[6].secs = 30 /\ gw.sleeps[7].secs = 30

-----------------------------------------------------------------------------
(***************************************************************************)
(* Claims about the coordinators                                           *)
(***************************************************************************)

\* the checkpoint stored for the resource now, and when the run started
Ckpt(resource) == get_cursor_val(db, resource)

CkptAtStart(resource) ==
    IF \E r \in ckAtStart : r.resource = resource
    THEN (CHOOSE r \in ckAtStart : r.resource = resource).cursor_token
    ELSE None

\* the coordinator of the resource has read its checkpoint and not yet handed
\* over to the next coordinator's first statement
InCoordinator(resource) ==
    /\ Running
    /\ IF resource = "users"
       THEN CoordinatorOf(pc) = "users" \/ pc = "sync_organizations"
       ELSE \/ CoordinatorOf(pc) = "tickets"
            \/ pc = "sync_ticket_events"
            \/ pc = "sync_views" /\ ~cfg.USE_TICKET_EVENTS_FOR_COMMENTS

\* the last non-empty token among the pages, else dflt
LastToken(pages, dflt) ==
    LET with == {i \in 1..Len(pages) : Truthy(pages[i].tok)} IN
    IF with = {} THEN dflt
    ELSE pages[CHOOSE i \in with : \A j \in with : j <= i].tok

\* the place in the feed of a token (0: no token)
PosOfToken(t) == IF t = None THEN 0 ELSE CHOOSE k \in 1..FeedLen : Token(k) = t

HasRaw(resource, id) ==
    \E r \in db.raw_snapshots : r.resource = resource /\ r.entity_id = id

\* record k of the feed has been applied to the store, with what hangs on it
Applied(resource, k) ==
    IF resource = "users"
    THEN user_row(SyncUser(k)) \in db.users /\ HasRaw("users", k)
    ELSE LET t == FeedRec("tickets", k) IN
         IF Filtered(t)
         THEN cfg.PRUNE_REOPENED_FROM_DB => ~\E r \in db.tickets : r.id = k
         ELSE /\ ticket_row(t) \in db.tickets
              /\ HasRaw("tickets", k)
              /\ ~cfg.USE_TICKET_EVENTS_FOR_COMMENTS =>
                    /\ \E c \in db.ticket_comments : c.id = k /\ c.ticket_id = k
                    /\ HasRaw("comments", k)
                    /\ \E a \in db.attachments : a.id = k /\ a.ticket_id = k
                    /\ HasRaw("attachments", k)

\* the furthest place in the feed this run of the coordinator has received
Furthest(resource) ==
    IF page # NoPage /\ page.kind = resource THEN page.pos
    ELSE IF seen # <<>> THEN seen[Len(seen)].pos
    ELSE 0

CursorFocus == srv.mode = "feed" /\ srv.focus \in {"users", "tickets"}

\* C2 as stated: a restart from the persisted checkpoint fetches again at most
\* the one page that was in flight
C2_AsStated ==
    (CursorFocus /\ InCoordinator(srv.focus) /\ Ckpt(srv.focus) # None) =>
        Furthest(srv.focus) - PosOfToken(Ckpt(srv.focus)) <= 1

\* C2: in the users and tickets coordinators, at every point where the process
\* may crash, the persisted token is the one from before the run or the
\* after_cursor of a page handled to its end; every record up to the token is
\* in the store; and a restart from the token fetches again, besides the page
\* in flight, only pages that carried no token
C2_CrashSafe ==
    CursorFocus =>
        LET res == srv.focus
            c == PosOfToken(Ckpt(res))
        IN  /\ \A k \in 1..Min(c, FeedLen) : Applied(res, k)
            /\ InCoordinator(res) =>
                /\ \/ Ckpt(res) = CkptAtStart(res)
                   \/ \E i \in 1..Len(seen) : seen[i].tok = Ckpt(res)
                /\ \A k \in (c + 1)..(Furthest(res) - 1) : k \in srv.tokenless

\* a crash after page 2 was persisted, page 3 in flight
C2_Witness ==
    /\ CursorFocus
    /\ srv.focus = "tickets"
    /\ ~cfg.USE_TICKET_EVENTS_FOR_COMMENTS
    /\ srv.tokenless = {}
    /\ pc = "comments_loop"
    /\ page.pos = 3
    /\ Ckpt("tickets") = Token(2)
    /\ Applied("tickets", 1)

C3_Tokens ==
    \A res \in {"users", "tickets"} :
        InCoordinator(res) => Ckpt(res) = LastToken(seen, CkptAtStart(res))

C3_Scenario ==
    (/\ pc = "sync_organizations"
     /\ Len(seen) = 2
     /\ seen[1].tok = "C1" /\ ~seen[1].eos
     /\ ~Truthy(seen[2].tok) /\ seen[2].eos) => Ckpt("users") = "C1"

C3_RowsKept ==
    \A res \in {"users", "tickets", "organizations", "ticket_events"} :
        Ckpt(res) # None => Ckpt(res)' # None

\* C3: in sync_users and the tickets coordinator the checkpoint equals the
\* after_cursor of the last page processed that carried a non-empty one (a page
\* without one leaves it as it was); a checkpoint row, once there, is there in
\* every later state; page 1 with after_cursor C1 and no end_of_stream, then a
\* page with end_of_stream and no token, ends sync_users with checkpoint C1
C3_Checkpoint == [](C3_Tokens /\ C3_Scenario) /\ [][C3_RowsKept]_vars

C3_Witness ==
    /\ pc = "sync_organizations"
    /\ runs = 1
    /\ Len(seen) = 2
    /\ seen[1].tok = "C1" /\ ~seen[1].eos
    /\ ~Truthy(seen[2].tok) /\ seen[2].eos
    /\ Ckpt("users") = "C1"

\* the first request of the coordinator of the resource is in flight
FirstRequest(resource) ==
    /\ nfetch = 0
    /\ pc = CASE resource = "users" -> "users_fetch"
              [] resource = "tickets" -> "tickets_fetch"
              [] resource = "organizations" -> "orgs_fetch"
              [] OTHER -> "events_fetch"

\* C4: the first request of each incremental coordinator: with no checkpoint
\* stored it carries the bootstrap start_time and no cursor; with one stored it
\* carries the stored value (cursor for users and tickets, start_time for
\* organizations and ticket events) and no bootstrap time was computed; a
\* start_time is never the beginning of history
C4_FirstRequest ==
    \A res \in {"users", "tickets", "organizations", "ticket_events"} :
        FirstRequest(res) =>
            /\ Ckpt(res) = None =>
                /\ req.cursor = None
                /\ req.start_time = <<initial_start_time_epoch(clock, hours)>>
            /\ Ckpt(res) # None =>
                /\ start = <<>>
                /\ IF res \in {"users", "tickets"}
                   THEN req.cursor = Ckpt(res) /\ req.start_time = <<>>
                   ELSE /\ req.cursor = None
                        /\ Len(req.start_time) = 1
                        /\ Str(req.start_time[1]) = Ckpt(res)
            /\ \A i \in 1..Len(req.start_time) : req.start_time[i] > 0

C4_Witness ==
    /\ runs = 2
    /\ FirstRequest("tickets")
    /\ Ckpt("tickets") = "C2"
    /\ req.cursor = "C2"
    /\ Ckpt("users") # None

\* C9 as stated: in organizations and ticket events every value written to the
\* checkpoint is at least the value stored before it
C9_AsStated ==
    [][\A res \in {"organizations", "ticket_events"} :
            (Ckpt(res) # None /\ Ckpt(res)' # None) =>
                IntOf(Ckpt(res)') >= IntOf(Ckpt(res))]_vars

\* C10: against the ordered feed, a run of the users or tickets coordinator
\* that started from a persisted token never holds a page whose after_cursor
\* is a token that was persisted and then overwritten by another
C10_NoSuperseded ==
    \A res \in {"users", "tickets"} :
        (InCoordinator(res) /\ CkptAtStart(res) # None /\ page # NoPage
            /\ page.kind = res) =>
                ~(Truthy(page.after_cursor) /\ <<res, page.after_cursor>> \in old)

C10_Witness ==
    /\ runs = 2
    /\ srv.focus = "users"
    /\ CkptAtStart("users") = Token(2)
    /\ <<"users", Token(1)>> \in old
    /\ page # NoPage
    /\ page.kind = "users"
    /\ page.after_cursor = Token(3)

-----------------------------------------------------------------------------
(***************************************************************************)
(* Claims about filtering, pruning and the store                           *)
(***************************************************************************)

PruneOn == cfg.CLOSED_TICKETS_ONLY /\ cfg.PRUNE_REOPENED_FROM_DB

\* no tickets row with the id and no comment or attachment row of the ticket
NoTypedRows(d, k) ==
    /\ ~\E r \in d.tickets : r.id = k
    /\ ~\E r \in d.ticket_comments : r.ticket_id = k
    /\ ~\E r \in d.attachments : r.ticket_id = k

\* C11 as stated: with closed-only filtering and pruning on, every ticket the
\* tickets coordinator observed non-closed is absent, with its comments and
\* attachments, when the run has completed
C11_AsStated ==
    (pc = "done" /\ PruneOn) => \A k \in pruned : NoTypedRows(db, k)

\* the non-closed ticket at the head of the page goes to delete_ticket, and
\* when delete_ticket returns none of its rows is left
C11_Deleted ==
    /\ (/\ pc = "tickets_loop" /\ ~RecordsDone(page) /\ Filtered(Head(page.recs))
        /\ PruneOn /\ pc' \notin {"tickets_loop", "crashed"}) =>
            /\ pc' = "delete_comments"
            /\ Head(page.recs).id \in pruned'
    /\ (pc = "delete_row" /\ pc' = "tickets_loop") =>
            NoTypedRows(db', Head(page.recs).id)

\* the rows of a pruned ticket come back only with an observation of it as closed
C11_Return ==
    \A k \in pruned :
        (NoTypedRows(db, k) /\ ~NoTypedRows(db', k)) =>
            \/ /\ pc = "tickets_loop"
               /\ Head(page.recs).id = k
               /\ IsClosed(Head(page.recs).status)
            \/ /\ pc = "comments_loop"
               /\ sub.kind = "event"
               /\ sub.tid = k

\* C11: with closed-only filtering and pruning on, a ticket observed non-closed
\* has no tickets, comment or attachment row left when delete_ticket returns,
\* also rows of a prior run, and stays so for the rest of the run unless it is
\* observed again as closed
C11_Prune == [][C11_Deleted /\ C11_Return]_vars

\* the second run has pruned ticket 1, whose rows the first run had stored
C11_Witness ==
    /\ PruneOn
    /\ runs = 2
    /\ nfetch = 1
    /\ pc = "tickets_loop"
    /\ 1 \in pruned
    /\ NoTypedRows(db, 1)
    /\ HasRaw("comments", 1)
    /\ HasRaw("attachments", 1)

\* the tickets coordinator is at a non-closed ticket, closed-only on, pruning off
AtSkippedTicket ==
    /\ pc = "tickets_loop"
    /\ page.recs # <<>>
    /\ cfg.CLOSED_TICKETS_ONLY
    /\ ~cfg.PRUNE_REOPENED_FROM_DB
    /\ ~IsClosed(Head(page.recs).status)

\* C12: with closed-only filtering on and pruning off, the step that handles a
\* non-closed ticket changes no table and no file, issues no request, raises no
\* error and leaves the coordinator at the next ticket of the page
C12_Skip ==
    [][(AtSkippedTicket /\ pc' # "crashed") =>
            /\ db' = db
            /\ files' = files
            /\ gw' = gw
            /\ gw.st = "idle"
            /\ pc' = "tickets_loop"
            /\ page' = [page EXCEPT !.recs = Tail(@)]]_vars

\* ticket 2 (closed) stored, ticket 1 (open) skipped, the page at its end
C12_Witness ==
    /\ cfg.CLOSED_TICKETS_ONLY
    /\ ~cfg.PRUNE_REOPENED_FROM_DB
    /\ runs = 1
    /\ nfetch = 1
    /\ pc = "tickets_loop"
    /\ page.recs = <<>>
    /\ \E r \in db.tickets : r.id = 2
    /\ NoTypedRows(db, 1)
    /\ ~HasRaw("tickets", 1)
    /\ HasRaw("tickets", 2)

Tables == DOMAIN EmptyDb

\* the primary keys of the rows of a table
RowKeys(d, t) ==
    CASE t = "sync_state" -> {<<r.resource>> : r \in d.sync_state}
      [] t = "raw_snapshots" -> {<<r.resource, r.entity_id>> : r \in d.raw_snapshots}
      [] OTHER -> {<<r.id>> : r \in d[t]}

\* the ticket ids of the rows of the table that the step removes
LostTickets(t) ==
    CASE t = "tickets" -> {r.id : r \in {x \in db.tickets : <<x.id>> \notin RowKeys(db', t)}}
      [] t = "ticket_comments" ->
            {r.ticket_id : r \in {x \in db.ticket_comments : <<x.id>> \notin RowKeys(db', t)}}
      [] OTHER ->
            {r.ticket_id : r \in {x \in db.attachments : <<x.id>> \notin RowKeys(db', t)}}

\* C13: a step removes a row of a table only on the prune path: closed-only
\* filtering and pruning are both on, the tickets coordinator is in
\* delete_ticket for the non-closed ticket at the head of its page, and the row
\* is a tickets, comment or attachment row of that ticket id; so with either
\* flag off every table only grows or stays the same
C13_OnlyPrune ==
    [][\A t \in Tables :
            RowKeys(db, t) \ RowKeys(db', t) # {} =>
                /\ PruneOn
                /\ pc \in {"tickets_loop", "delete_comments", "delete_row"}
                /\ page.kind = "tickets"
                /\ ~IsClosed(Head(page.recs).status)
                /\ t \in {"tickets", "ticket_comments", "attachments"}
                /\ LostTickets(t) = {Head(page.recs).id}]_vars

\* delete_ticket under way in the second run: the attachments of the ticket are
\* gone, its comment and its row are still there
C13_Witness ==
    /\ PruneOn
    /\ runs = 2
    /\ pc = "delete_comments"
    /\ ~\E r \in db.attachments : r.ticket_id = Head(page.recs).id
    /\ HasRaw("attachments", Head(page.recs).id)
    /\ \E r \in db.ticket_comments : r.ticket_id = Head(page.recs).id
    /\ \E r \in db.tickets : r.id = Head(page.recs).id

\* ---- typed rows and their raw snapshots ----

\* the positions between the typed INSERT of an upsert helper and its upsert_raw
RawPcs ==
    {"users_raw", "orgs_raw", "ticket_raw", "comment_raw", "att_raw"}
        \cup {MetaFamilies[i] \o "_raw" : i \in 1..4}

\* at such a position: the resource name and the payload the helper was called with
PendingResource ==
    CASE pc = "users_raw" -> "users"
      [] pc = "orgs_raw" -> "organizations"
      [] pc = "ticket_raw" -> "tickets"
      [] pc = "comment_raw" -> "comments"
      [] pc = "att_raw" -> "attachments"
      [] OTHER -> CHOOSE f \in {MetaFamilies[i] : i \in 1..4} : pc = f \o "_raw"

PendingPayload ==
    CASE pc = "comment_raw" -> Head(sub.crecs)
      [] pc = "att_raw" -> Head(sub.atts)
      [] OTHER -> Head(page.recs)

TypedNames == Tables \ {"sync_state", "raw_snapshots"}

\* the raw snapshot of (resource, id) holds exactly the payload
RawHolds(d, resource, payload) ==
    \E s \in d.raw_snapshots :
        /\ s.resource = resource
        /\ s.entity_id = payload.id
        /\ s.payload_json = payload

\* a typed INSERT is a step of its own and leads to the helper's upsert_raw
C14_TypedFirst ==
    \A t \in TypedNames :
        (db'[t] # db[t] /\ RowKeys(db, t) \subseteq RowKeys(db', t)) =>
            /\ pc \notin RawPcs
            /\ pc' \in RawPcs
            /\ db'.raw_snapshots = db.raw_snapshots

\* upsert_raw then stores the payload of the same entity, unless the program dies there
C14_RawSecond ==
    (pc \in RawPcs /\ pc' # pc) =>
        \/ pc' = "crashed" /\ db' = db
        \/ /\ RawHolds(db', PendingResource, PendingPayload)
           /\ \A t \in TypedNames : db'[t] = db[t]

\* C14: every typed upsert that completes has then stored the raw snapshot of the
\* same entity with exactly the payload it was given, as a second step after the
\* typed write; only a crash between the two leaves the typed row without it
C14_TypedThenRaw == [][C14_TypedFirst /\ C14_RawSecond]_vars

\* a comment's typed row and its raw snapshot both written from the same payload
C14_Witness ==
    /\ pc = "atts_loop"
    /\ sub.crecs # <<>>
    /\ comment_row(sub.tid, Head(sub.crecs)) \in db.ticket_comments
    /\ RawHolds(db, "comments", Head(sub.crecs))

\* ---- the raw snapshot table ----

\* the resource name, and the timestamp, an upsert helper hands to upsert_raw
RawResourceOf(o) ==
    CASE o.op = "upsert_user" -> "users"
      [] o.op = "upsert_org" -> "organizations"
      [] o.op = "upsert_ticket" -> "tickets"
      [] o.op = "upsert_comment" -> "comments"
      [] o.op = "upsert_attachment" -> "attachments"
      [] o.op = "upsert_view" -> "views"
      [] o.op = "upsert_trigger" -> "triggers"
      [] o.op = "upsert_trigger_category" -> "trigger_categories"
      [] OTHER -> "macros"

RawStampOf(o) ==
    CASE o.op = "upsert_comment" -> OrElse(o.payload.updated_at, o.payload.created_at)
      [] o.op = "upsert_attachment" -> o.payload.created_at
      [] OTHER -> o.payload.updated_at

SnapshotsOf(d, resource, id) ==
    {s \in d.raw_snapshots : s.resource = resource /\ s.entity_id = id}

\* C15: the store holds at most one raw snapshot per (resource, entity id), and
\* after an upsert its payload and timestamp are those of that upsert, whatever
\* snapshot (older, newer, none) was stored for the key before; the snapshots of
\* the other keys are left as they were.
C15_LastSnapshot ==
    [][nops' # nops =>
        LET o == last'
            res == RawResourceOf(o)
        IN  /\ SnapshotsOf(db', res, o.payload.id) =
                    {[resource |-> res, entity_id |-> o.payload.id,
                      updated_at |-> parse_dt(RawStampOf(o)), payload_json |-> o.payload]}
            /\ db'.raw_snapshots \ SnapshotsOf(db', res, o.payload.id) =
                    db.raw_snapshots \ SnapshotsOf(db, res, o.payload.id)
            /\ \A s1, s2 \in db'.raw_snapshots :
                    s1.resource = s2.resource /\ s1.entity_id = s2.entity_id => s1 = s2]_vars

\* a ticket's snapshot written twice, the second time with the older timestamp
C15_Witness ==
    /\ nops = 2
    /\ last.op = "upsert_ticket"
    /\ last.payload.updated_at = T1
    /\ SnapshotsOf(db, "tickets", last.payload.id) =
            {[resource |-> "tickets", entity_id |-> last.payload.id,
              updated_at |-> parse_dt(T1), payload_json |-> last.payload]}
    /\ Cardinality(db.raw_snapshots) = 1
    /\ Cardinality(db.tickets) = 1

\* ---- last write wins ----

\* the row an upsert helper builds from its arguments
ProjectionOf(o) ==
    CASE o.op = "upsert_user" -> user_row(o.payload)
      [] o.op = "upsert_org" -> org_row(o.payload)
      [] o.op = "upsert_ticket" -> ticket_row(o.payload)
      [] o.op = "upsert_comment" -> comment_row(o.ticket_id, o.payload)
      [] o.op = "upsert_attachment" ->
            attachment_row(o.ticket_id, o.comment_id, o.payload, o.local_path)
      [] o.op = "upsert_view" -> view_row(o.payload)
      [] o.op = "upsert_trigger" -> trigger_row(o.payload)
      [] o.op = "upsert_trigger_category" -> trigger_category_row(o.payload)
      [] OTHER -> macro_row(o.payload)

RowsOf(table, id) == {r \in table : r.id = id}

\* C16: after a typed upsert of a payload for an id, the table holds for that id
\* exactly the row projected from the payload (and the helper's other
\* arguments), whatever row it held before: newer, older or none; the rows of
\* the other ids are left as they were.
C16_LastWriteWins ==
    [][nops' # nops =>
        LET o == last'
            id == TypedIdOf(o)
        IN  /\ RowsOf(TableOf(db', o.op), id) = {ProjectionOf(o)}
            /\ TableOf(db', o.op) \ RowsOf(TableOf(db', o.op), id) =
                    TableOf(db, o.op) \ RowsOf(TableOf(db, o.op), id)
            /\ o.op = "upsert_ticket" =>
                    \A r \in RowsOf(db'.tickets, id) :
                        /\ r.status = o.payload.status
                        /\ r.subject = o.payload.subject
                        /\ r.updated_at = parse_dt(o.payload.updated_at)]_vars

\* a ticket upserted twice, the second time open and with a timestamp that does
\* not parse: the row is the second payload's
C16_Witness ==
    /\ nops = 2
    /\ last.op = "upsert_ticket"
    /\ last.payload.updated_at = BadTime
    /\ Cardinality(db.raw_snapshots) = 1
    /\ db.tickets = {[id |-> last.payload.id, subject |-> "a", status |-> "open",
                      updated_at |-> None]}

\* ---- attachment downloads ----

\* download_attachment is about to be called for the attachment a
AtAttachment == pc = "atts_loop" /\ sub.atts # <<>>

\* the call of download_attachment has ended (it has returned, or the process died in it)
CallEnded == pc' \in {"att_row", "crashed"}

FileAt(fs, target) == {f \in fs : f.path = target}

\* C17: a call of download_attachment whose target file exists and is not empty
\* sends no request, leaves every file as it is, and returns the path of the target.
C17_AlreadyThere ==
    [][(/\ AtAttachment
        /\ cfg.DOWNLOAD_ATTACHMENTS
        /\ Truthy(Head(sub.atts).content_url)
        /\ \E f \in FileAt(files, TargetOf(sub.tid, Head(sub.atts))) : f.size > 0
        /\ pc' # "crashed")
            => /\ pc' = "att_row"
               /\ sub'.local = TargetOf(sub.tid, Head(sub.atts))
               /\ gw.st = "idle" /\ gw' = gw
               /\ files' = files]_vars

\* the path of a file left cut short by an earlier run is returned as it is:
\* a transfer that ends short returns no path, so this path was not downloaded
\* by this call
C17_Witness ==
    /\ pc = "att_row"
    /\ runs = 2
    /\ gw.st = "idle"
    /\ sub.local = TargetOf(sub.tid, Head(sub.atts))
    /\ FileAt(files, sub.local) = {[path |-> sub.local, size |-> SizeOf("partial")]}

\* C18: a call of download_attachment with downloads disabled, or for an
\* attachment without content URL, returns None and does nothing else: it sends
\* no request and creates or changes no directory and no file.
C18_NothingToFetch ==
    [][(/\ AtAttachment
        /\ ~cfg.DOWNLOAD_ATTACHMENTS \/ ~Truthy(Head(sub.atts).content_url)
        /\ pc' # "crashed")
            => /\ pc' = "att_row"
               /\ sub'.local = None
               /\ gw.st = "idle" /\ gw' = gw
               /\ files' = files]_vars

\* downloads disabled, an attachment with a content URL: None is returned and
\* the attachments directory is still empty
C18_Witness ==
    /\ pc = "att_row"
    /\ ~cfg.DOWNLOAD_ATTACHMENTS
    /\ Truthy(Head(sub.atts).content_url)
    /\ sub.local = None
    /\ gw.st = "idle"
    /\ files = {}

\* downloads enabled, an attachment without content URL after one that was fetched
C18_WitnessNoUrl ==
    /\ pc = "att_row"
    /\ cfg.DOWNLOAD_ATTACHMENTS
    /\ ~Truthy(Head(sub.atts).content_url)
    /\ sub.local = None
    /\ \A f \in files : f.path # TargetOf(sub.tid, Head(sub.atts))

\* the transfer of the attachment at hand has ended without its whole body on
\* disk: get_with_retry raised (fatal status, retries exhausted), or opening or
\* writing the target raised
TransferFailed ==
    /\ pc = "download_fetch"
    /\ pc' # pc
    /\ \/ gw.st = "raised"
       \/ [path |-> TargetOf(sub.tid, Head(sub.atts)), size |-> SizeOf("complete")] \notin files'

\* C19: a failed transfer never ends the run: download_attachment returns None,
\* the attachment's row is then upserted with local_path None, and the
\* coordinator goes on (only the death of the process stops it there).
C19_FailureIsAbsent ==
    [][/\ (TransferFailed /\ pc' # "crashed") =>
            /\ pc' = "att_row"
            /\ sub'.local = None
            /\ sub'.atts = sub.atts
            /\ db' = db
       /\ (pc = "att_row" /\ pc' # "crashed") =>
            /\ pc' = "att_raw"
            /\ attachment_row(sub.tid, Head(sub.crecs).id, Head(sub.atts), sub.local)
                    \in db'.attachments
       /\ (pc = "att_raw" /\ pc' # "crashed") =>
            /\ pc' = "atts_loop"
            /\ sub'.atts = Tail(sub.atts)
       /\ pc \in {"atts_loop", "download_fetch", "att_row", "att_raw"} => pc' # "failed"]_vars

\* after a request that ended in an error: the row of the attachment is stored
\* with local_path None, no file was written, and the run goes on
C19_Witness ==
    /\ pc = "att_raw"
    /\ cfg.DOWNLOAD_ATTACHMENTS
    /\ Truthy(Head(sub.atts).content_url)
    /\ sub.local = None
    /\ attachment_row(sub.tid, Head(sub.crecs).id, Head(sub.atts), None) \in db.attachments
    /\ \A f \in files : f.path # TargetOf(sub.tid, Head(sub.atts))

\* ---- the target path ----

\* every target the other attachments of the same ticket may get
TargetsOfOthers ==
    [ticket_id \in Ids |->
        [id \in PathIds |-> {target_path(ticket_id, id, name) : name \in FileNames}]]

HasIllegal(t) == \E i \in 1..Len(t) : t[i] \in Illegal

\* C20: the target is <ticket_id>/<attachment_id>__<name> below the attachments
\* directory, where <name> has none of the characters \ / : * ? " < > | and at
\* most 180 characters, and is the file name itself when that is already so
\* (attachment_<id> when there is no file name); the path depends on the ticket
\* id, the attachment id and the file name only, and two attachments of one
\* ticket with different ids never get the same path.
C20_TargetPath ==
    last.op = "download_attachment" =>
        LET prefix == Digits(last.ticket_id) \o <<"/">> \o Digits(last.id) \o <<"_", "_">>
            name == SubSeq(last.target, Len(prefix) + 1, Len(last.target))
        IN  /\ Len(last.target) >= Len(prefix)
            /\ SubSeq(last.target, 1, Len(prefix)) = prefix
            /\ ~HasIllegal(name)
            /\ Len(name) <= 180
            /\ (last.file_name # <<>> /\ ~HasIllegal(last.file_name)
                    /\ Len(last.file_name) <= 180) => name = last.file_name
            /\ last.file_name = <<>> =>
                    name = <<"a", "t", "t", "a", "c", "h", "m", "e", "n", "t", "_">>
                                \o Digits(last.id)
            /\ last.target = target_path(last.ticket_id, last.id, last.file_name)
            /\ \A id \in PathIds \ {last.id} :
                    last.target \notin TargetsOfOthers[last.ticket_id][id]

\* a file name longer than the cap with illegal characters in it, cut to the cap
C20_Witness ==
    /\ last.op = "download_attachment"
    /\ Len(last.file_name) > 180
    /\ HasIllegal(last.file_name)
    /\ last.id > 9
    /\ Len(last.target) = Len(Digits(last.ticket_id)) + 1 + 2 + 2 + 180
    /\ last.target[Len(last.target)] = "_"
    /\ last.target[Len(last.target) - 1] = "a"

-----------------------------------------------------------------------------
(***************************************************************************)
(* Claims about the order of the run and its failures                      *)
(***************************************************************************)

OrgPcs == {"sync_organizations", "orgs_fetch", "orgs_loop", "orgs_raw"}

\* C21: with SKIP_ORGANIZATIONS set, sync_organizations returns at once: the
\* step sends no request, computes no start time from the checkpoint or the
\* clock, leaves store and files as they are and hands over to the tickets
\* coordinator; the organizations table and checkpoint are never written.
C21_Skipped ==
    [][cfg.SKIP_ORGANIZATIONS =>
        /\ pc = "sync_organizations" =>
                /\ pc' = "sync_tickets"
                /\ gw.st = "idle" /\ gw' = gw
                /\ req' = req
                /\ start' = start
                /\ db' = db
                /\ files' = files
        /\ pc' \notin OrgPcs \ {"sync_organizations"}
        /\ db'.organizations = db.organizations
        /\ {r \in db'.sync_state : r.resource = "organizations"}
                = {r \in db.sync_state : r.resource = "organizations"}]_vars

\* the tickets coordinator is about to start, nothing of the organizations stored
C21_Witness ==
    /\ cfg.SKIP_ORGANIZATIONS
    /\ pc = "sync_tickets"
    /\ runs = 1
    /\ db.users # {}
    /\ db.organizations = {}
    /\ Ckpt("organizations") = None
    /\ \A s \in db.raw_snapshots : s.resource # "organizations"
    /\ gw.st = "idle"
    /\ req.url = None

\* the place in main()'s order of the coordinator that holds position p, the
\* comment loop in hand being of kind k; 0 outside a run, 9 when main() is done
StageOf(p, k) ==
    CASE p \in {"sync_users", "users_fetch", "users_loop", "users_raw"} -> 1
      [] p \in OrgPcs -> 2
      [] p \in {"sync_tickets", "tickets_fetch", "tickets_loop", "ticket_raw",
                "delete_comments", "delete_row"} -> 3
      [] p \in {"comments_fetch", "comments_loop", "comment_raw", "atts_loop",
                "download_fetch", "att_row", "att_raw"} -> IF k = "event" THEN 4 ELSE 3
      [] p \in {"sync_ticket_events", "events_fetch", "events_loop", "event_ticket_fetch"} -> 4
      [] p = "done" -> 9
      [] \E i \in 1..4 : p \in {"sync_" \o MetaFamilies[i], MetaFamilies[i] \o "_fetch",
                                MetaFamilies[i] \o "_loop", MetaFamilies[i] \o "_raw"} ->
            4 + (CHOOSE i \in 1..4 :
                    p \in {"sync_" \o MetaFamilies[i], MetaFamilies[i] \o "_fetch",
                           MetaFamilies[i] \o "_loop", MetaFamilies[i] \o "_raw"})
      [] OTHER -> 0

\* where each coordinator starts
EntryOf(stage) ==
    CASE stage = 1 -> "sync_users"
      [] stage = 2 -> "sync_organizations"
      [] stage = 3 -> "sync_tickets"
      [] stage = 4 -> "sync_ticket_events"
      [] stage = 9 -> "done"
      [] OTHER -> "sync_" \o MetaFamilies[stage - 4]

\* the coordinators that write a table, a checkpoint or a snapshot of a resource
StagesOf(name) ==
    CASE name = "users" -> {1}
      [] name = "organizations" -> {2}
      [] name = "tickets" -> {3}
      [] name = "ticket_events" -> {4}
      [] name \in {"ticket_comments", "comments", "attachments"} -> {3, 4}
      [] OTHER -> {4 + i : i \in {j \in 1..4 : MetaFamilies[j] = name}}

PageFetchPcs ==
    {"users_fetch", "orgs_fetch", "tickets_fetch", "events_fetch"}
        \cup {MetaFamilies[i] \o "_fetch" : i \in 1..4}

PageLoopPcs ==
    {"users_loop", "orgs_loop", "tickets_loop", "events_loop"}
        \cup {MetaFamilies[i] \o "_loop" : i \in 1..4}

\* the coordinators run one after another in main()'s order
C22_Order ==
    LET a == StageOf(pc, sub.kind)
        b == StageOf(pc', sub'.kind)
    IN  /\ (a \in {0, 9} /\ b \notin {0, 9}) => pc' = "sync_users"
        /\ (a \notin {0, 9} /\ b # 0 /\ b # a) =>
                /\ b = IF a = 3 /\ ~cfg.USE_TICKET_EVENTS_FOR_COMMENTS THEN 5 ELSE a + 1
                /\ pc' = EntryOf(b)
                /\ gw.st = "idle" /\ gw'.st = "idle"

\* every write and every request is the running coordinator's
C22_Own ==
    LET a == StageOf(pc, sub.kind) IN
    /\ \A t \in TypedNames : db'[t] # db[t] => a \in StagesOf(t)
    /\ \A r \in (db'.sync_state \ db.sync_state) \cup (db.sync_state \ db'.sync_state) :
            a \in StagesOf(r.resource)
    /\ \A r \in (db'.raw_snapshots \ db.raw_snapshots)
                    \cup (db.raw_snapshots \ db'.raw_snapshots) :
            a \in StagesOf(r.resource)
    /\ (gw.st # "running" /\ gw'.st = "running") =>
            /\ a # 0
            /\ StageOf(pc', sub'.kind) = a

\* the next page is asked for when the records of the page in hand are done
C22_Pages ==
    /\ (pc \in PageLoopPcs /\ pc' \in PageFetchPcs) => page.recs = <<>>
    /\ (pc = "comments_loop" /\ pc' = "comments_fetch") => sub.crecs = <<>>
    /\ (pc \in PageLoopPcs /\ StageOf(pc', sub'.kind) # StageOf(pc, sub.kind)
            /\ pc' \notin {"failed", "crashed"}) => page.recs = <<>>

\* C22: in every run the coordinators run one after another in the order
\* users, organizations, tickets, ticket events (when that mode is on), views,
\* triggers, trigger categories, macros; every store write and every request
\* belongs to the coordinator then running, and a coordinator asks for its
\* next page, or ends, only when every record of the page in hand is processed.
C22_Sequential == [][C22_Order /\ C22_Own /\ C22_Pages]_vars

\* a run that went through every coordinator, ticket events included
C22_Witness ==
    /\ pc = "done"
    /\ runs = 1
    /\ cfg.USE_TICKET_EVENTS_FOR_COMMENTS
    /\ db.users # {} /\ db.tickets # {} /\ db.ticket_comments # {}
    /\ db.views # {} /\ db.triggers # {} /\ db.trigger_categories # {} /\ db.macros # {}
    /\ Ckpt("users") # None /\ Ckpt("tickets") # None /\ Ckpt("ticket_events") # None

\* C23: when get_with_retry raises for a page (or for the status lookup of an
\* event's ticket), the run ends there: the step changes no row, no checkpoint
\* and no file, and nothing more happens until a new run is started, so the
\* checkpoints and rows written earlier in the run stay as they were.
C23_StopsThere ==
    [][/\ (gw.st = "raised" /\ pc # "download_fetch") =>
            /\ pc' \in {"failed", "crashed"}
            /\ db' = db
            /\ files' = files
       /\ pc = "failed" =>
            /\ pc' = "sync_users"
            /\ runs' = runs + 1
            /\ db' = db
            /\ files' = files
       /\ pc' = "failed" => gw.st = "raised"]_vars

\* the users coordinator failed on its second page: the first page's rows and
\* token are stored, nothing of the later families is
C23_Witness ==
    /\ pc = "failed"
    /\ runs = 1
    /\ db.users # {}
    /\ Ckpt("users") = "C1"
    /\ CkptAtStart("users") = None
    /\ db.tickets = {} /\ db.views = {} /\ db.macros = {}
    /\ Ckpt("tickets") = None

\* ---- a second pass over the same remote data ----

\* a pass has completed, and so had the pass before it, against the ordered feed
SecondPassDone == pc = "done" /\ prev # <<>>

\* C24 as stated: the second pass ends with the rows of the first in every
\* typed table and in the raw snapshots.
C24_AsStated ==
    SecondPassDone => \A t \in Tables \ {"sync_state"} : db[t] = prev[1][t]

\* the attachments rows of the second pass are those of the first, but a row
\* that had no local path may have got one
SameButMaterialized(now, before) ==
    /\ {r.id : r \in now} = {r.id : r \in before}
    /\ \A r \in before :
            IF r.local_path # None
            THEN r \in now
            ELSE \E q \in now : q = [r EXCEPT !.local_path = q.local_path]

\* C24 amended: a second pass over the same remote data, resumed from the
\* checkpoints of the first, ends with the rows of the first in every typed
\* table and in the raw snapshots, except that an attachment whose transfer had
\* not succeeded in the first pass (local path absent) may have its local path
\* set by the second; a local path once stored is kept.
C24_SecondPass ==
    SecondPassDone =>
        /\ \A t \in Tables \ {"sync_state", "attachments"} : db[t] = prev[1][t]
        /\ SameButMaterialized(db.attachments, prev[1].attachments)

\* the second pass saw the ticket, its comment and its attachment again and
\* left every row as it was, the local path included
C24_Witness ==
    /\ SecondPassDone
    /\ runs = 2
    /\ \A t \in Tables : db[t] = prev[1][t]
    /\ db.tickets # {} /\ db.ticket_comments # {}
    /\ \E r \in db.attachments : r.local_path # None

\* ---- two runs on one store ----

\* the process in control is at the end of a page that carries a token
StoresToken == pc = "users_loop" /\ RecordsDone(page) /\ Truthy(page.after_cursor)

\* C25: nothing orders the checkpoint writes of two runs of the users
\* coordinator on one store: every end of a page with a token stores that
\* token whatever the checkpoint holds, the other process's later token
\* included, and the checkpoint changes in no other step
C25_LastWriterWins ==
    [][/\ StoresToken /\ peer' = peer => Ckpt("users")' = page.after_cursor
       /\ Ckpt("users")' # Ckpt("users") => StoresToken /\ peer' = peer]_vars

\* the checkpoint is the first token of the feed, just stored by one process,
\* after the other process had stored the second
C25_Witness ==
    /\ Ckpt("users") = Token(1)
    /\ seen # <<>> /\ seen[Len(seen)].tok = Token(1)
    /\ peer.pc # "none"
    /\ \E i \in 1..Len(peer.seen) : peer.seen[i].tok = Token(2)
    /\ <<"users", Token(2)>> \in old

\* ---- the checkpoint of the time exports ----

\* the coordinator of a time export is at the end of a page that reports end_time
TimePageEnds(loop) == pc = loop /\ page.recs = <<>> /\ page.end_time # 0

\* C26 as stated: organizations and ticket events store end_time at the end
\* of every page, the final one included, so the checkpoint after page k is
\* the end_time of page k
C26_AsStated ==
    [][/\ TimePageEnds("orgs_loop") /\ pc' # "crashed" =>
            Ckpt("organizations")' = Str(page.end_time)
       /\ TimePageEnds("events_loop") /\ pc' # "crashed" =>
            Ckpt("ticket_events")' = Str(page.end_time)]_vars

\* ---- the end of a cursor feed ----

CursorFamilies == {"users", "tickets"}

\* the coordinator of the cursor feed is in control
InCursor(f) == Running /\ CoordinatorOf(pc) = f

\* the page in hand is the last one: the flag is set, or there is no link
LastPage(pg) ==
    pg.end_of_stream \/ (~Truthy(pg.after_url) /\ ~Truthy(pg.links_next))

\* the step at the end of a page of the feed of f
C27_EndOfPage(f) ==
    pc = f \o "_loop" /\ RecordsDone(page) /\ pc' # "crashed" =>
        /\ Truthy(page.after_cursor) => Ckpt(f)' = page.after_cursor
        /\ IF LastPage(page)
           THEN ~InCursor(f)' /\ gw'.st = "idle" /\ req' = NoReq
           ELSE /\ pc' = f \o "_fetch" /\ gw'.st = "running"
                /\ req'.url = OrElse(page.after_url, page.links_next)

\* a page of the feed of f is asked for at the start of the coordinator and
\* after a page that was not the last, all its records handled, and the
\* coordinator is left on a return only with all records of the page handled
C27_Fetches(f) ==
    /\ pc' = f \o "_fetch" /\ pc # f \o "_fetch" =>
            \/ pc = "sync_" \o f
            \/ pc = f \o "_loop" /\ RecordsDone(page) /\ ~LastPage(page)
    /\ InCursor(f) /\ ~InCursor(f)' /\ pc' \notin {"crashed", "failed"} =>
            pc = f \o "_loop" /\ RecordsDone(page) /\ LastPage(page)

\* C27: the cursor driver stops, with no further page fetch, after the page
\* whose end_of_stream is set or that has no after_url and no links.next, the
\* records and the after_cursor of that page applied; and with a server that
\* ends the feed after finitely many pages the coordinator is left
C27_Terminates ==
    /\ [][\A f \in CursorFamilies : C27_EndOfPage(f) /\ C27_Fetches(f)]_vars
    /\ \A f \in CursorFamilies : InCursor(f) ~> ~InCursor(f)

\* the users coordinator has returned after its second page, which had the
\* flag set: its records and its token are stored
C27_Witness ==
    /\ pc = "sync_organizations"
    /\ Len(seen) = 2 /\ seen[2].eos /\ seen[2].tok = "C2"
    /\ Ckpt("users") = "C2"
    /\ db.users # {}

\* ---- where comments come from ----

EventsPcs == {"sync_ticket_events", "events_fetch", "events_loop", "event_ticket_fetch"}

\* with the events mode on no comments of a ticket are asked for, and the
\* events coordinator is entered from the end of the tickets coordinator only
C28_On ==
    /\ pc' # "comments_fetch"
    /\ sub'.kind # "ticket"
    /\ pc' = "sync_ticket_events" /\ pc # "sync_ticket_events" =>
            pc = "tickets_loop" /\ RecordsDone(page) /\ LastPage(page)
    /\ pc = "tickets_loop" /\ RecordsDone(page) /\ LastPage(page) /\ pc' # "crashed" =>
            pc' = "sync_ticket_events"

\* with the events mode off the events coordinator is never entered and its
\* checkpoint stays as it is; the comments of every ticket that was stored
\* are asked for, and page after page as long as the page had a next link
C28_Off ==
    /\ pc' \notin EventsPcs
    /\ sub'.kind # "event"
    /\ Ckpt("ticket_events")' = Ckpt("ticket_events")
    /\ pc = "ticket_raw" /\ pc' # "crashed" =>
            /\ pc' = "comments_fetch" /\ gw'.st = "running"
            /\ sub'.tid = Head(page.recs).id
    /\ pc = "comments_loop" /\ sub.crecs = <<>> /\ pc' # "crashed" =>
            IF Truthy(sub.next)
            THEN pc' = "comments_fetch" /\ gw'.st = "running" /\ sub' = sub
            ELSE pc' = "tickets_loop" /\ page'.recs = Tail(page.recs)

\* C28: comments come either from the ticket events export (one run of its
\* coordinator after the tickets coordinator, no request for a ticket's
\* comments) or from each stored ticket's comments, every page followed to the
\* one without a next link (the events export neither fetched nor its
\* checkpoint touched), never both
C28_OneSource ==
    [][IF cfg.USE_TICKET_EVENTS_FOR_COMMENTS THEN C28_On ELSE C28_Off]_vars

\* the events coordinator has run after the tickets coordinator and stored a
\* comment; no comments of a ticket were asked for
C28_Witness ==
    /\ cfg.USE_TICKET_EVENTS_FOR_COMMENTS
    /\ pc = "sync_views"
    /\ db.tickets # {} /\ db.ticket_comments # {}
    /\ Ckpt("tickets") # None /\ Ckpt("ticket_events") # None

\* the second page of a ticket's comments has been asked for, the events
\* export untouched
C28_WitnessOff ==
    /\ ~cfg.USE_TICKET_EVENTS_FOR_COMMENTS
    /\ pc = "comments_fetch" /\ sub.kind = "ticket" /\ sub.n = 1
    /\ db.ticket_comments # {}
    /\ Ckpt("ticket_events") = None

\* ---- comments from ticket events ----

\* the child events of the event that the code takes for comments:
\* (ce.get("event_type") or ce.get("type")) == "Comment"
CommentChildren(ev) ==
    {ev.child_events[i] : i \in {j \in 1..Len(ev.child_events) :
        OrElse(ev.child_events[j].event_type, ev.child_events[j].type) = "Comment"}}

InEvents == pc \in EventsPcs \/ sub.kind = "event"

\* a step of the events coordinator that changes a typed table or a snapshot
\* is about a Comment child event of the event in hand, whose ticket the
\* lookup reported closed when only closed tickets are kept
C29_Writes ==
    InEvents /\ (\E t \in Tables \ {"sync_state"} : db'[t] # db[t]) =>
        /\ sub.kind = "event" /\ page.recs # <<>> /\ sub.crecs # <<>>
        /\ sub.tid = Head(page.recs).ticket_id
        /\ \E ce \in CommentChildren(Head(page.recs)) :
                Head(sub.crecs) = comment_of_event(ce)
        /\ \A r \in db'.ticket_comments \ db.ticket_comments :
                r.id = Head(sub.crecs).id /\ r.ticket_id = sub.tid
        /\ \A r \in db'.attachments \ db.attachments :
                r.comment_id = Head(sub.crecs).id /\ r.ticket_id = sub.tid
        /\ \A t \in Tables \ {"ticket_comments", "attachments", "raw_snapshots"} :
                db'[t] = db[t]
        /\ cfg.CLOSED_TICKETS_ONLY => IsClosed(sub.status)

\* the step after the lookup of the event's ticket: another status than
\* closed passes the event over with the store and the files as they are
C29_Lookup ==
    pc = "event_ticket_fetch" /\ gw.st = "returned" /\ pc' # "crashed" =>
        IF IsClosed(sub'.status)
        THEN pc' = "comments_loop" /\ sub'.kind = "event"
        ELSE /\ pc' = "events_loop" /\ sub'.kind = "skipped"
             /\ page'.recs = Tail(page.recs)
             /\ db' = db /\ files' = files

\* C29: in the events mode a comment or attachment row is written only for a
\* child event whose type (event_type, else type) is Comment, and with
\* closed-only filtering only when the lookup of the event's ticket returned
\* closed; an event whose ticket has another status writes nothing, and a
\* child event of another type gives no comment row
C29_OnlyComments == [][C29_Writes /\ C29_Lookup]_vars

\* closed-only: the first event's ticket was reported closed and its Comment
\* child is stored; the second event's ticket was reported open and the
\* event passed over, its children not stored
C29_Witness ==
    /\ cfg.CLOSED_TICKETS_ONLY /\ cfg.USE_TICKET_EVENTS_FOR_COMMENTS
    /\ pc = "events_loop"
    /\ sub.kind = "skipped" /\ sub.status = "open" /\ sub.tid = 2
    /\ {r.id : r \in db.ticket_comments} = {1}
    /\ \A r \in db.ticket_comments : r.ticket_id = 1

\* ---- delete_ticket ----

\* the store after the rows of `table` whose column `col` is k were deleted,
\* every other table as it was
Without(d, table, col, k) ==
    [t \in Tables |-> IF t = table THEN {r \in d[t] : r[col] # k} ELSE d[t]]

\* C30: delete_ticket removes the attachments rows with the ticket's id as
\* ticket_id, then the ticket_comments rows with it as ticket_id, then the
\* tickets row with it as id, in this order and nothing else: the other rows,
\* the checkpoints, the raw snapshots and the files stay as they are
C30_DeleteTicket ==
    [][/\ pc' = "delete_comments" =>
            /\ pc = "tickets_loop" /\ page' = page
            /\ db' = Without(db, "attachments", "ticket_id", Head(page.recs).id)
            /\ files' = files
       /\ pc' = "delete_row" =>
            /\ pc = "delete_comments" /\ page' = page
            /\ db' = Without(db, "ticket_comments", "ticket_id", Head(page.recs).id)
            /\ files' = files
       /\ pc = "delete_row" /\ pc' # "crashed" =>
            /\ pc' = "tickets_loop"
            /\ db' = Without(db, "tickets", "id", Head(page.recs).id)
            /\ files' = files
       /\ pc = "delete_comments" => pc' \in {"delete_row", "crashed"}]_vars

\* delete_ticket has returned for ticket 1: its rows are gone, its snapshots
\* and those of its comment are there, and so are the rows of ticket 2 and
\* the checkpoint of the users
C30_Witness ==
    /\ pc = "tickets_loop"
    /\ 1 \in pruned
    /\ NoTypedRows(db, 1)
    /\ HasRaw("tickets", 1)
    /\ HasRaw("comments", 1)
    /\ \E r \in db.tickets : r.id = 2
    /\ \E r \in db.ticket_comments : r.ticket_id = 2
    /\ Ckpt("users") # None

\* ---- what a returned path stands for ----

\* the file at the path holds the whole body of the attachment
Whole(fs, path) == \E f \in FileAt(fs, path) : f.size = SizeOf("complete")

\* C31 as stated: download_attachment returns a path only for a file that
\* holds the complete content; a file left by a transfer that failed part-way
\* is not returned by a later call without being fetched again
C31_AsStated ==
    [][(pc \in {"atts_loop", "download_fetch"} /\ pc' = "att_row" /\ sub'.local # None)
            => Whole(files', sub'.local)]_vars

\* ---- Retry-After that is not a number ----

\* C32 as stated: a retryable response that is not the 8th of the call is
\* followed by another request whatever its Retry-After header is; the call
\* ends only on a 200, on a status outside the retry set, or with the 8th
\* response
C32_AsStated ==
    /\ (gw.attempt >= 1 /\ gw.attempt < 8 /\ gw.status \in {429, 500, 502, 503, 504})
            => gw.st = "running"
    /\ gw.st \in {"returned", "raised"} =>
            \/ gw.status = 200
            \/ gw.status \in FatalStatuses
            \/ gw.attempt = 8

\* ---- a stored local path and later observations ----

\* the row of the attachment in hand holds the path of its file, which exists
PathStored(d, fs) ==
    \E r \in d.attachments :
        /\ r.id = Head(sub.atts).id
        /\ r.local_path = TargetOf(sub.tid, Head(sub.atts))
        /\ FileAt(fs, r.local_path) # {}

\* C33 as stated: an upsert of an attachment whose row holds the path of a
\* file that still exists keeps that path, also when this observation has no
\* path to give (downloads disabled, no content URL, transfer failed)
C33_AsStated ==
    [][(pc = "att_row" /\ PathStored(db, files) /\ pc' # "crashed")
            => PathStored(db', files')]_vars

\* ---- references between the typed tables ----

\* every comment has its ticket, every attachment its comment and its ticket
Consistent(d) ==
    /\ \A c \in d.ticket_comments : \E t \in d.tickets : t.id = c.ticket_id
    /\ \A a \in d.attachments :
            /\ \E c \in d.ticket_comments : c.id = a.comment_id
            /\ \E t \in d.tickets : t.id = a.ticket_id

\* C34 as stated: from an empty store, after a completed run in either
\* comment-sourcing mode and with any filter and prune setting, every
\* ticket_comments row has a tickets row with its ticket_id and every
\* attachments row has a ticket_comments row with its comment_id and a tickets
\* row with its ticket_id
C34_AsStated == pc = "done" /\ runs = 1 => Consistent(db)

====
